---- MODULE Spec2Model ----
(***************************************************************************)
(* A model of the terraformWebGPU terrain core and of its Winkel Tripel    *)
(* viewer.                                                                 *)
(*                                                                         *)
(* Numbers.  The program computes in IEEE doubles; the model computes in   *)
(* binary fixed point on 32-bit integers:                                  *)
(*   - a percentile (a probability) p is the integer p * PUnit, PUnit=2^30  *)
(*   - a standard score or a polynomial value v is v * ZUnit, ZUnit = 2^20  *)
(*   - an elevation in feet e is e * FUnit, FUnit = 2^8                     *)
(* Every arithmetic step of the source is kept, each rounded down to the   *)
(* grid of its result.                                                     *)
(***************************************************************************)
EXTENDS Integers, Sequences, FiniteSets, TLC

VARIABLES
    elevCall,   \* a caller of percentileToElevationFeet: its arguments and the results
    pctCall,    \* a caller of rawToPercentile: its arguments and the result
    ico,        \* a run of createIcosphere: its locals and its position
    winkel,     \* the Winkel viewer page: the variables of main, the runs of
                \* initRenderer that wait at a yield, the animation-frame callbacks
    terrain,    \* one seed seen by its two views: the distribution and the mesh
                \* built for it and the flat-map samples taken at the mesh vertices
    ocean,      \* a caller of buildTerrainMesh that reads the ocean statistics
    cdfCall,    \* a call of inverseNormalCDF, direct or through one of its callers
    fnCall,     \* a caller of one of the pure functions of the projection and
                \* terrain modules: its arguments and the results
    pixels,     \* one sample grid and one image: buildMapping and renderWinkel
                \* followed pixel by pixel
    simplex,    \* two SimplexNoise3D instances and the calls made on them
    task,       \* one long-running operation: the rows it has done, the slice
                \* it is in, and the frame callbacks it has requested
    page,       \* the globe page: the seed controls, terraformBusy, the runs of
                \* runTerraformFromSeed and the calls made on the renderer
    slider,     \* the ocean-surface slider of the globe page: its value, the
                \* debounce timer and the rebuilds of the mesh
    handshake   \* an opener and the viewer window it opened: the messages in
                \* flight, the timers of the opener and the state of the viewer

vars == <<elevCall, pctCall, ico, winkel, terrain, ocean, cdfCall, fnCall,
         pixels, simplex, task, page, slider, handshake>>

Idle == [pc |-> "idle"]

(***************************************************************************)
(* Fixed-point arithmetic.  The helpers are functions, so that an argument *)
(* is evaluated once, where it is passed.                                  *)
(***************************************************************************)
PUnit == 2^30
ZUnit == 2^20
FUnit == 2^8
Limb == 2^10

Abs(x) == IF x < 0 THEN -x ELSE x
Sgn(x) == IF x < 0 THEN -1 ELSE 1

\* floor(a * b / ZUnit) for 0 <= a, b < 2^30, by 10-bit limbs (no 32-bit overflow)
FxMulU[a \in Nat, b \in Nat] ==
    LET ah == a \div Limb
        al == a % Limb
        bh == b \div Limb
        bl == b % Limb
    IN  ah * bh + (ah * bl + al * bh + (al * bl) \div Limb) \div Limb

\* a * b on the ZUnit grid, signed (rounded toward zero)
FxMul[a \in Int, b \in Int] == Sgn(a) * Sgn(b) * FxMulU[Abs(a), Abs(b)]

\* binary long division: acc * 2^n + floor(r * 2^n / b), for 0 <= r < b < 2^30
DivBits[r \in Nat, b \in Nat, n \in Nat, acc \in Nat] ==
    IF n = 0 THEN acc
    ELSE IF 2 * r >= b THEN DivBits[2 * r - b, b, n - 1, 2 * acc + 1]
         ELSE DivBits[2 * r, b, n - 1, 2 * acc]

\* floor(a * 2^n / b) for a >= 0, 0 < b < 2^30
DivShift[a \in Nat, b \in Nat, n \in Nat] == DivBits[a % b, b, n, a \div b]

\* a / b on the ZUnit grid, signed, b # 0
FxDiv[a \in Int, b \in Int] == Sgn(a) * Sgn(b) * DivShift[Abs(a), Abs(b), 20]

\* Math.sqrt on the ZUnit grid: the largest q with q * q <= x, bit by bit
SqrtBits[x \in Nat, q \in Nat, bit \in Nat] ==
    IF bit = 0 THEN q
    ELSE IF FxMulU[q + bit, q + bit] <= x THEN SqrtBits[x, q + bit, bit \div 2]
         ELSE SqrtBits[x, q, bit \div 2]

FxSqrt[x \in Nat] == SqrtBits[x, 0, 2^24]

\* floor(log2(n)) for n >= 1
Log2Floor[n \in Nat] == IF n < 2 THEN 0 ELSE 1 + Log2Floor[n \div 2]

\* ln 2 on the ZUnit grid
LN2 == 726817

\* 2 atanh(t) = 2 t (1 + t^2/3 + t^4/5 + ... + t^12/13), t2 = t * t
AtanhSeries[t \in Nat, t2 \in Nat] ==
    LET s6 == ZUnit \div 13
        s5 == ZUnit \div 11 + FxMulU[t2, s6]
        s4 == ZUnit \div 9 + FxMulU[t2, s5]
        s3 == ZUnit \div 7 + FxMulU[t2, s4]
        s2 == ZUnit \div 5 + FxMulU[t2, s3]
        s1 == ZUnit \div 3 + FxMulU[t2, s2]
        s0 == ZUnit + FxMulU[t2, s1]
    IN  2 * FxMulU[t, s0]

\* ln m for 1 <= m < 2 on the ZUnit grid: 2 atanh((m - 1) / (m + 1))
LogMantissa[t \in Nat] == AtanhSeries[t, FxMulU[t, t]]

\* p = m * 2^e on the PUnit grid: ln p = (e - 30) ln 2 + ln m
LogExp[p \in Nat, e \in Nat] ==
    LET m == IF e >= 20 THEN p \div 2^(e - 20) ELSE p * 2^(20 - e)
    IN  (e - 30) * LN2 + LogMantissa[FxDiv[m - ZUnit, m + ZUnit]]

\* Math.log of a probability: p on the PUnit grid (p >= 1), the result on the ZUnit grid
FxLogP[p \in Nat] == LogExp[p, Log2Floor[p]]

(***************************************************************************)
(* Globe constants (feet) and clamp                                        *)
(***************************************************************************)
BASE_ABYSSAL_FLOOR_ELEVATION == 0
HIGHEST_ELEVATION_LIMIT == 48685
LOWEST_ELEVATION_LIMIT == -16404
STD_DEVS == 4

\* Math.max(min, Math.min(max, value))
clamp[value \in Int, min \in Int, max \in Int] ==
    LET m == IF max < value THEN max ELSE value
    IN  IF min > m THEN min ELSE m

(***************************************************************************)
(* inverseNormalCDF: the rational approximation, coefficients on ZUnit     *)
(***************************************************************************)
a1 == -41625144
a2 == 231678776
a3 == -289332014
a4 == 145078618
a5 == -32154371
a6 == 2628390
b1 == -57122330
b2 == 169435030
b3 == -163262214
b4 == 70046252
b5 == -13925804
c1 == -8163
c2 == -338057
c3 == -2517378
c4 == -2673588
c5 == 4587168
c6 == 3080888
d1 == 8163
d2 == 338131
d3 == 2563909
d4 == 3936783

\* 0.02425, the break between the tail and the central approximation (PUnit grid)
P_LOW == (PUnit \div 100000) * 2425 + ((PUnit % 100000) * 2425) \div 100000

PMustBeInOpenUnit == "p must be in (0,1)"

\* the guard throwing for the whole upper tail
inverseNormalCDFThrows_upperTail(p) == p <= 0 \/ p > PUnit - P_LOW

\* the guard of inverseNormalCDF: it throws for p <= 0 and for p >= 1
inverseNormalCDFThrows(p) == p <= 0 \/ p >= PUnit

\* the ratio of the c and d polynomials in q
TailPolynomials[q \in Int] ==
    FxDiv[FxMul[FxMul[FxMul[FxMul[FxMul[c1, q] + c2, q] + c3, q] + c4, q] + c5, q] + c6,
          FxMul[FxMul[FxMul[FxMul[d1, q] + d2, q] + d3, q] + d4, q] + ZUnit]

\* the tail branch: q = sqrt(-2 log p)
TailRatio[p \in Nat] == TailPolynomials[FxSqrt[-2 * FxLogP[p]]]

\* the ratio of the a and b polynomials in r = q * q, times q
CentralPolynomials[q \in Int, r \in Int] ==
    FxDiv[FxMul[FxMul[FxMul[FxMul[FxMul[FxMul[a1, r] + a2, r] + a3, r] + a4, r] + a5, r] + a6, q],
          FxMul[FxMul[FxMul[FxMul[FxMul[b1, r] + b2, r] + b3, r] + b4, r] + b5, r] + ZUnit]

\* the central branch: q = p - 0.5 (brought to the ZUnit grid), r = q * q
CentralRatio[p \in Nat] ==
    LET q == (p - PUnit \div 2) \div Limb
    IN  CentralPolynomials[q, FxMul[q, q]]

\* the upper tail without its sign: a slip the mirrored branch invites
inverseNormalCDF_unsignedUpperTail(p) ==
    IF inverseNormalCDFThrows(p) THEN PMustBeInOpenUnit
    ELSE IF p < P_LOW THEN TailRatio[p]
    ELSE IF p > PUnit - P_LOW THEN TailRatio[PUnit - p]
    ELSE CentralRatio[p]

\* p on the PUnit grid; the result (a standard score) on the ZUnit grid
inverseNormalCDF(p) ==
    IF inverseNormalCDFThrows(p) THEN PMustBeInOpenUnit
    ELSE IF p < P_LOW THEN TailRatio[p]
    ELSE IF p > PUnit - P_LOW THEN -TailRatio[PUnit - p]
    ELSE CentralRatio[p]

(***************************************************************************)
(* percentileToElevationFeet: the split-normal mapping                     *)
(***************************************************************************)
\* eps = 1e-6 on the PUnit grid
EPS == PUnit \div 1000000

sigmaLeftFeet(stdDevs) == (Abs(LOWEST_ELEVATION_LIMIT) * FUnit) \div stdDevs
sigmaRightFeet(stdDevs) == (HIGHEST_ELEVATION_LIMIT * FUnit) \div stdDevs

\* w = sigmaLeftFeet / (sigmaLeftFeet + sigmaRightFeet), on the PUnit grid
SplitWeight(stdDevs) ==
    DivShift[sigmaLeftFeet(stdDevs), sigmaLeftFeet(stdDevs) + sigmaRightFeet(stdDevs), 30]

\* the percentile the inverse CDF is given: x / (2 * y) is computed as (x * 2^29) / y
SplitPercentile[uu \in Int, w \in Int] ==
    IF uu < w
    THEN clamp[DivShift[uu, w, 29], EPS, PUnit \div 2 - EPS]
    ELSE clamp[PUnit \div 2 + DivShift[uu - w, PUnit - w, 29], PUnit \div 2 + EPS, PUnit - EPS]

\* elevFeet (FUnit grid) and zStd (ZUnit grid) from the clamped score
ElevationOfScore[zStd \in Int, sigmaFeet \in Int] ==
    [elevFeet |-> clamp[BASE_ABYSSAL_FLOOR_ELEVATION * FUnit + FxMul[sigmaFeet, zStd],
                        LOWEST_ELEVATION_LIMIT * FUnit, HIGHEST_ELEVATION_LIMIT * FUnit],
     zStd |-> zStd]

\* the score clamped with the STD_DEVS constant instead of the stdDevs argument
percentileToElevationFeet_constantSpan(u, stdDevs) ==
    LET splitAt[uu \in Int, w \in Int] ==
            ElevationOfScore[
                clamp[inverseNormalCDF(SplitPercentile[uu, w]),
                      -(STD_DEVS * ZUnit), STD_DEVS * ZUnit],
                IF uu < w THEN sigmaLeftFeet(stdDevs) ELSE sigmaRightFeet(stdDevs)]
    IN  splitAt[clamp[u, EPS, PUnit - EPS], SplitWeight(stdDevs)]

\* u on the PUnit grid, stdDevs a positive integer
percentileToElevationFeet(u, stdDevs) ==
    LET splitAt[uu \in Int, w \in Int] ==
            ElevationOfScore[
                clamp[inverseNormalCDF(SplitPercentile[uu, w]),
                      -(stdDevs * ZUnit), stdDevs * ZUnit],
                IF uu < w THEN sigmaLeftFeet(stdDevs) ELSE sigmaRightFeet(stdDevs)]
    IN  splitAt[clamp[u, EPS, PUnit - EPS], SplitWeight(stdDevs)]

(***************************************************************************)
(* rawToPercentile                                                         *)
(***************************************************************************)
\* (idx + 0.5) / n on the PUnit grid
HalfBucket[idx \in Nat, n \in Nat] == DivShift[2 * idx + 1, 2 * n, 30]

\* the binary search of rawToPercentile; sortedRaw is indexed from 1, so the
\* source's sortedRaw[mid] is sortedRaw[mid + 1]
LowerBound[sortedRaw \in Seq(Int), raw \in Int, lo \in Nat, hi \in Nat] ==
    IF lo < hi
    THEN IF sortedRaw[(lo + hi) \div 2 + 1] < raw
         THEN LowerBound[sortedRaw, raw, (lo + hi) \div 2 + 1, hi]
         ELSE LowerBound[sortedRaw, raw, lo, (lo + hi) \div 2]
    ELSE lo

\* the search with <= for <: the index after the last element equal to raw
UpperBound[sortedRaw \in Seq(Int), raw \in Int, lo \in Nat, hi \in Nat] ==
    IF lo < hi
    THEN IF sortedRaw[(lo + hi) \div 2 + 1] <= raw
         THEN UpperBound[sortedRaw, raw, (lo + hi) \div 2 + 1, hi]
         ELSE UpperBound[sortedRaw, raw, lo, (lo + hi) \div 2]
    ELSE lo

\* rawToPercentile searching with <= for <
rawToPercentile_upperBound(sortedRaw, raw) ==
    LET n == Len(sortedRaw)
    IN  IF n = 0 THEN PUnit \div 2
        ELSE IF raw <= sortedRaw[1] THEN HalfBucket[0, n]
        ELSE IF raw >= sortedRaw[n] THEN HalfBucket[n - 1, n]
        ELSE HalfBucket[clamp[UpperBound[sortedRaw, raw, 0, n], 0, n - 1], n]

\* the bucket without its half: (idx) / n
rawToPercentile_noHalfBucket(sortedRaw, raw) ==
    LET n == Len(sortedRaw)
    IN  IF n = 0 THEN PUnit \div 2
        ELSE IF raw <= sortedRaw[1] THEN DivShift[0, n, 30]
        ELSE IF raw >= sortedRaw[n] THEN DivShift[n - 1, n, 30]
        ELSE DivShift[clamp[LowerBound[sortedRaw, raw, 0, n], 0, n - 1], n, 30]

rawToPercentile(sortedRaw, raw) ==
    LET n == Len(sortedRaw)
    IN  IF n = 0 THEN PUnit \div 2
        ELSE IF raw <= sortedRaw[1] THEN HalfBucket[0, n]
        ELSE IF raw >= sortedRaw[n] THEN HalfBucket[n - 1, n]
        ELSE HalfBucket[clamp[LowerBound[sortedRaw, raw, 0, n], 0, n - 1], n]

(***************************************************************************)
(* Callers of the pure functions: the arguments are drawn at the start,    *)
(* the call stores what the function returns.                              *)
(***************************************************************************)
\* percentiles in (0,1) on the PUnit grid: both ends, the clamps, the tails,
\* the split weight w and both sides of it
PercentileSteps == 16

Percentiles ==
    {1, EPS, 2 * EPS, 17000, 34000, 100000, 1000000,
     PUnit - 1, PUnit - EPS, PUnit - 2 * EPS, PUnit - 50000, PUnit - 100000}
    \cup {k * (PUnit \div 100) : k \in {1, 2, 3, 5, 10, 20, 25, 26, 30, 50, 71, 90, 96, 97, 99}}
    \cup {k * (PUnit \div PercentileSteps) : k \in 1..(PercentileSteps - 1)}
    \cup {SplitWeight(STD_DEVS) - 1, SplitWeight(STD_DEVS), SplitWeight(STD_DEVS) + 1}

StdDevChoices == {1, 2, STD_DEVS, 5}

ElevInit ==
    /\ elevCall \in [pc : {"call"}, u1 : Percentiles, u2 : Percentiles,
                     stdDevs : StdDevChoices, ret1 : {<<>>}, ret2 : {<<>>}]
    /\ pctCall = Idle
    /\ ico = Idle
    /\ winkel = Idle
    /\ terrain = Idle
    /\ ocean = Idle
    /\ cdfCall = Idle
    /\ fnCall = Idle
    /\ pixels = Idle
    /\ simplex = Idle
    /\ task = Idle
    /\ page = Idle
    /\ slider = Idle
    /\ handshake = Idle

CallPercentileToElevationFeet ==
    /\ elevCall.pc = "call"
    /\ elevCall' = [elevCall EXCEPT
                      !.pc = "done",
                      !.ret1 = percentileToElevationFeet(elevCall.u1, elevCall.stdDevs),
                      !.ret2 = percentileToElevationFeet(elevCall.u2, elevCall.stdDevs)]
    /\ UNCHANGED <<pctCall, ico, winkel, terrain, ocean, cdfCall, fnCall, pixels, simplex, task, page, slider, handshake>>

ElevNext == CallPercentileToElevationFeet

SpecElev == ElevInit /\ [][ElevNext]_vars

(***************************************************************************)
(* C2: for every percentile in (0,1) and every stdDevs > 0, the elevFeet   *)
(* that percentileToElevationFeet returns lies in                          *)
(* [LOWEST_ELEVATION_LIMIT, HIGHEST_ELEVATION_LIMIT] and the zStd it       *)
(* returns lies in [-stdDevs, +stdDevs].                                   *)
(***************************************************************************)
InElevationRange(ret, stdDevs) ==
    /\ LOWEST_ELEVATION_LIMIT * FUnit <= ret.elevFeet
    /\ ret.elevFeet <= HIGHEST_ELEVATION_LIMIT * FUnit
    /\ -(stdDevs * ZUnit) <= ret.zStd
    /\ ret.zStd <= stdDevs * ZUnit

C2_ElevationAndScoreInRange ==
    elevCall.pc = "done" =>
        /\ InElevationRange(elevCall.ret1, elevCall.stdDevs)
        /\ InElevationRange(elevCall.ret2, elevCall.stdDevs)

\* a span narrower than STD_DEVS: one score clamped at -stdDevs, one at +stdDevs
C2_Witness ==
    /\ elevCall.pc = "done"
    /\ elevCall.stdDevs < STD_DEVS
    /\ elevCall.ret1.zStd = -(elevCall.stdDevs * ZUnit)
    /\ elevCall.ret2.zStd = elevCall.stdDevs * ZUnit
    /\ elevCall.ret1.elevFeet < 0
    /\ elevCall.ret2.elevFeet > 0

(***************************************************************************)
(* C3: elevFeet is monotonically non-decreasing in the percentile, also    *)
(* across the split point w: p1 <= p2 implies elevFeet(p1) <= elevFeet(p2).*)
(***************************************************************************)
C3_ElevationMonotone ==
    (elevCall.pc = "done" /\ elevCall.u1 <= elevCall.u2) =>
        elevCall.ret1.elevFeet <= elevCall.ret2.elevFeet

\* two percentiles on the two sides of the split point w, the second in the
\* upper tail of the inverse CDF, with strictly increasing elevations
C3_Witness ==
    /\ elevCall.pc = "done"
    /\ elevCall.u1 < SplitWeight(elevCall.stdDevs)
    /\ elevCall.u2 > SplitWeight(elevCall.stdDevs)
    /\ SplitPercentile[elevCall.u2, SplitWeight(elevCall.stdDevs)] > PUnit - P_LOW
    /\ elevCall.ret1.elevFeet < 0
    /\ elevCall.ret2.elevFeet > 0
    /\ elevCall.ret2.elevFeet < HIGHEST_ELEVATION_LIMIT * FUnit

MaxDistLen == 4
MaxRawLevel == 2

\* the ascending sequences of length 1..MaxDistLen over the raw levels 0..MaxRawLevel
SortedDistributions ==
    UNION {{d \in [1..n -> 0..MaxRawLevel] : \A i \in 1..(n - 1) : d[i] <= d[i + 1]}
           : n \in 1..MaxDistLen}

PctInit ==
    /\ pctCall \in [pc : {"call"}, sortedRaw : SortedDistributions,
                    raw : (-1)..(MaxRawLevel + 1), ret : {-1}]
    /\ elevCall = Idle
    /\ ico = Idle
    /\ winkel = Idle
    /\ terrain = Idle
    /\ ocean = Idle
    /\ cdfCall = Idle
    /\ fnCall = Idle
    /\ pixels = Idle
    /\ simplex = Idle
    /\ task = Idle
    /\ page = Idle
    /\ slider = Idle
    /\ handshake = Idle

CallRawToPercentile ==
    /\ pctCall.pc = "call"
    /\ pctCall' = [pctCall EXCEPT
                     !.pc = "done",
                     !.ret = rawToPercentile(pctCall.sortedRaw, pctCall.raw)]
    /\ UNCHANGED <<elevCall, ico, winkel, terrain, ocean, cdfCall, fnCall, pixels, simplex, task, page, slider, handshake>>

PctNext == CallRawToPercentile

SpecPct == PctInit /\ [][PctNext]_vars

\* the ranks (from 0, as in the source) at which the distribution holds raw
RanksOf(sortedRaw, raw) == {rank \in 0..(Len(sortedRaw) - 1) : sortedRaw[rank + 1] = raw}

\* the first of them
FirstRankOf(sortedRaw, raw) ==
    CHOOSE j \in RanksOf(sortedRaw, raw) : \A k \in RanksOf(sortedRaw, raw) : j <= k

\* the rank whose half-bucket a value of the distribution is given: the last
\* rank for the maximum (unless it is the minimum too), else the first rank
\* holding the value
BucketRankOf(sortedRaw, raw) ==
    IF raw = sortedRaw[Len(sortedRaw)] /\ raw # sortedRaw[1]
    THEN Len(sortedRaw) - 1
    ELSE FirstRankOf(sortedRaw, raw)

\* |pct - (rank + 0.5) / n| <= 1 / n, on the PUnit grid (one unit for the flooring)
WithinOneBucket(pct, rank, n) == Abs(pct - HalfBucket[rank, n]) <= DivShift[1, n, 30] + 1

(***************************************************************************)
(* C4: for a sorted distribution dist of length N and a rank in [0,N),     *)
(* rawToPercentile(dist, dist[rank]) is (j + 0.5) / N, with j the first    *)
(* rank holding the value dist[rank], or j = N - 1 when the value is the   *)
(* maximum and not the minimum; it is within 1/N of (rank + 0.5) / N       *)
(* exactly when |rank - j| <= 1, which always holds when the values are    *)
(* distinct.                                                               *)
(***************************************************************************)
C4_BucketRankPercentile ==
    (pctCall.pc = "done" /\ RanksOf(pctCall.sortedRaw, pctCall.raw) # {}) =>
        LET n == Len(pctCall.sortedRaw)
            j == BucketRankOf(pctCall.sortedRaw, pctCall.raw)
        IN  /\ pctCall.ret = HalfBucket[j, n]
            /\ \A rank \in RanksOf(pctCall.sortedRaw, pctCall.raw) :
                   WithinOneBucket(pctCall.ret, rank, n) <=> Abs(rank - j) <= 1
            /\ (\A r1, r2 \in RanksOf(pctCall.sortedRaw, pctCall.raw) : r1 = r2)
                   => j \in RanksOf(pctCall.sortedRaw, pctCall.raw)

\* a value strictly inside the distribution, held by two ranks
C4_Witness ==
    /\ pctCall.pc = "done"
    /\ pctCall.raw > pctCall.sortedRaw[1]
    /\ pctCall.raw < pctCall.sortedRaw[Len(pctCall.sortedRaw)]
    /\ \E j, k \in RanksOf(pctCall.sortedRaw, pctCall.raw) : j < k
    /\ pctCall.ret = HalfBucket[FirstRankOf(pctCall.sortedRaw, pctCall.raw),
                                Len(pctCall.sortedRaw)]

\* C4 as stated: within 1/N of (rank + 0.5) / N for every rank holding the value
C4_AsStated ==
    pctCall.pc = "done" =>
        \A rank \in RanksOf(pctCall.sortedRaw, pctCall.raw) :
            WithinOneBucket(pctCall.ret, rank, Len(pctCall.sortedRaw))

(***************************************************************************)
(* C5: for a non-empty sorted distribution of length N and any raw value,  *)
(* rawToPercentile returns (k + 0.5) / N for an integer k in [0, N-1],     *)
(* never 0 or 1; a raw value at or below the minimum gives 0.5 / N, and a  *)
(* raw value at or above the maximum and above the minimum gives           *)
(* (N - 0.5) / N.                                                          *)
(***************************************************************************)
C5_HalfBuckets ==
    pctCall.pc = "done" =>
        LET n == Len(pctCall.sortedRaw)
        IN  /\ \E k \in 0..(n - 1) : pctCall.ret = HalfBucket[k, n]
            /\ 0 < pctCall.ret /\ pctCall.ret < PUnit
            /\ pctCall.raw <= pctCall.sortedRaw[1] => pctCall.ret = HalfBucket[0, n]
            /\ (pctCall.raw >= pctCall.sortedRaw[n] /\ pctCall.raw > pctCall.sortedRaw[1])
                   => pctCall.ret = HalfBucket[n - 1, n]

\* all N >= 2 values equal and raw equal to them: the first half-bucket
C5_Witness ==
    /\ pctCall.pc = "done"
    /\ Len(pctCall.sortedRaw) >= 2
    /\ pctCall.raw = pctCall.sortedRaw[1]
    /\ pctCall.raw = pctCall.sortedRaw[Len(pctCall.sortedRaw)]
    /\ pctCall.ret = HalfBucket[0, Len(pctCall.sortedRaw)]

\* C5 as stated: every raw value at or above the maximum gives (N - 0.5) / N
C5_AsStated ==
    (pctCall.pc = "done" /\ pctCall.raw >= pctCall.sortedRaw[Len(pctCall.sortedRaw)]) =>
        pctCall.ret = HalfBucket[Len(pctCall.sortedRaw) - 1, Len(pctCall.sortedRaw)]

(***************************************************************************)
(* createIcosphere.  A vertex is kept as the pair of vertices it is the    *)
(* normalized midpoint of (an initial vertex as itself twice); indices     *)
(* count from 0 as in the source, so vertex k is verts[k + 1].             *)
(***************************************************************************)
MaxSubdivisions == 2

\* the 12 vertices of the icosahedron
InitialVerts == [k \in 1..12 |-> <<k - 1, k - 1>>]

\* the 20 faces of the icosahedron
InitialFaces ==
    << <<0, 11, 5>>, <<0, 5, 1>>, <<0, 1, 7>>, <<0, 7, 10>>, <<0, 10, 11>>,
       <<1, 5, 9>>, <<5, 11, 4>>, <<11, 10, 2>>, <<10, 7, 6>>, <<7, 1, 8>>,
       <<3, 9, 4>>, <<3, 4, 2>>, <<3, 2, 6>>, <<3, 6, 8>>, <<3, 8, 9>>,
       <<4, 9, 5>>, <<2, 4, 11>>, <<6, 2, 10>>, <<8, 6, 7>>, <<9, 8, 1>> >>

\* the decimal digits of a number, as `${a}` writes them
DigitChars == <<"0", "1", "2", "3", "4", "5", "6", "7", "8", "9">>

Decimal[n \in Nat] ==
    IF n < 10 THEN <<DigitChars[n + 1]>>
    ELSE Append(Decimal[n \div 10], DigitChars[(n % 10) + 1])

\* the template string `${a}_${b}`
KeyString(a, b) == Decimal[a] \o <<"_">> \o Decimal[b]

\* the cache key of an edge: the smaller index first
MidKey(a, b) == IF a < b THEN KeyString(a, b) ELSE KeyString(b, a)

\* the normalized midpoint of verts[a] and verts[b]: a point that is the same
\* for (a, b) and (b, a), and another point for another pair of vertices
Midpoint(a, b) == IF a < b THEN <<a, b>> ELSE <<b, a>>

\* getMid with the key in the order of the arguments
getMid_orderedKey(mesh, a, b) ==
    IF KeyString(a, b) \in DOMAIN mesh.midCache
    THEN [verts |-> mesh.verts, midCache |-> mesh.midCache,
          idx |-> mesh.midCache[KeyString(a, b)]]
    ELSE [verts |-> Append(mesh.verts, Midpoint(a, b)),
          midCache |-> mesh.midCache @@ (KeyString(a, b) :> Len(mesh.verts)),
          idx |-> Len(mesh.verts)]

\* getMid on the closure's verts and midCache: the index of the midpoint of
\* a and b, pushed as a new vertex when the edge is not in the cache
getMid(mesh, a, b) ==
    IF MidKey(a, b) \in DOMAIN mesh.midCache
    THEN [verts |-> mesh.verts, midCache |-> mesh.midCache,
          idx |-> mesh.midCache[MidKey(a, b)]]
    ELSE [verts |-> Append(mesh.verts, Midpoint(a, b)),
          midCache |-> mesh.midCache @@ (MidKey(a, b) :> Len(mesh.verts)),
          idx |-> Len(mesh.verts)]

\* the three getMid calls of one face, in the order ab, bc, ca
FaceMids(mesh, face) ==
    LET ab == getMid(mesh, face[1], face[2])
        bc == getMid(ab, face[2], face[3])
        ca == getMid(bc, face[3], face[1])
    IN  [verts |-> ca.verts, midCache |-> ca.midCache,
         ab |-> ab.idx, bc |-> bc.idx, ca |-> ca.idx]

\* the four faces pushed for the face (a, b, c)
FourFaces(face, m) ==
    << <<face[1], m.ab, m.ca>>, <<face[2], m.bc, m.ab>>,
       <<face[3], m.ca, m.bc>>, <<m.ab, m.bc, m.ca>> >>

\* indices.push(a, b, c) for every face
FlatIndices(faces) ==
    [i \in 1..(3 * Len(faces)) |-> faces[(i - 1) \div 3 + 1][((i - 1) % 3) + 1]]

IcoInit ==
    /\ ico \in [pc : {"subdivide"}, subdivisions : 0..MaxSubdivisions, s : {0},
                verts : {InitialVerts}, faces : {InitialFaces}, midCache : {<<>>},
                newFaces : {<<>>}, next : {0}, vertices : {0}, indices : {<<>>}]
    /\ elevCall = Idle
    /\ pctCall = Idle
    /\ winkel = Idle
    /\ terrain = Idle
    /\ ocean = Idle
    /\ cdfCall = Idle
    /\ fnCall = Idle
    /\ pixels = Idle
    /\ simplex = Idle
    /\ task = Idle
    /\ page = Idle
    /\ slider = Idle
    /\ handshake = Idle

\* one turn of the loop over the faces
SubdivideFace ==
    /\ ico.pc = "subdivide"
    /\ ico.s < ico.subdivisions
    /\ ico.next < Len(ico.faces)
    /\ \E m \in {FaceMids(ico, ico.faces[ico.next + 1])} :
          ico' = [ico EXCEPT
                    !.verts = m.verts,
                    !.midCache = m.midCache,
                    !.newFaces = ico.newFaces \o FourFaces(ico.faces[ico.next + 1], m),
                    !.next = ico.next + 1]
    /\ UNCHANGED <<elevCall, pctCall, winkel, terrain, ocean, cdfCall, fnCall, pixels, simplex, task, page, slider, handshake>>

\* the end of one pass: faces = newFaces, s++
EndPass ==
    /\ ico.pc = "subdivide"
    /\ ico.s < ico.subdivisions
    /\ ico.next = Len(ico.faces)
    /\ ico' = [ico EXCEPT !.faces = ico.newFaces, !.newFaces = <<>>, !.next = 0,
                          !.s = ico.s + 1]
    /\ UNCHANGED <<elevCall, pctCall, winkel, terrain, ocean, cdfCall, fnCall, pixels, simplex, task, page, slider, handshake>>

\* after the last pass: four floats per vertex, three indices per face
BuildArrays ==
    /\ ico.pc = "subdivide"
    /\ ico.s >= ico.subdivisions
    /\ ico' = [ico EXCEPT !.pc = "done",
                          !.vertices = 4 * Len(ico.verts),
                          !.indices = FlatIndices(ico.faces)]
    /\ UNCHANGED <<elevCall, pctCall, winkel, terrain, ocean, cdfCall, fnCall, pixels, simplex, task, page, slider, handshake>>

IcoNext == SubdivideFace \/ EndPass \/ BuildArrays

SpecIco == IcoInit /\ [][IcoNext]_vars

(***************************************************************************)
(* C10: createIcosphere(0) yields exactly 12 vertices and 20 triangles;    *)
(* every pass multiplies the triangle count by exactly 4, so that after s  *)
(* passes there are 20 * 4^s triangles and 10 * 4^s + 2 vertices.          *)
(***************************************************************************)
C10_IcosphereCounts ==
    /\ (ico.pc = "subdivide" /\ ico.next = 0) =>
          /\ Len(ico.faces) = 20 * 4^ico.s
          /\ Len(ico.verts) = 10 * 4^ico.s + 2
    /\ (ico.pc = "subdivide" /\ ico.next = Len(ico.faces) /\ ico.s < ico.subdivisions) =>
          Len(ico.newFaces) = 4 * Len(ico.faces)
    /\ ico.pc = "done" =>
          /\ ico.vertices = 4 * (10 * 4^ico.subdivisions + 2)
          /\ Len(ico.indices) = 3 * 20 * 4^ico.subdivisions
          /\ ico.subdivisions = 0 => (ico.vertices = 4 * 12 /\ Len(ico.indices) = 3 * 20)

\* a finished run of at least two passes, every edge met from both its faces
C10_Witness ==
    /\ ico.pc = "done"
    /\ ico.subdivisions >= 2
    /\ Len(ico.indices) >= 3 * 320
    /\ ico.vertices >= 4 * 162

(***************************************************************************)
(* The Winkel Tripel viewer page (winkelViewer.ts, main).  CSS lengths are *)
(* in thousandths of a pixel; lambda0 is in LambdaUnit-ths of a turn.      *)
(***************************************************************************)
\* null, comparable with the objects the variables hold
Null == [null |-> TRUE]

Max(x, y) == IF x > y THEN x ELSE y
Min(x, y) == IF x < y THEN x ELSE y

\* x * ASPECT and x / ASPECT for a CSS length x, ASPECT = (pi + 2) / pi = 1.63662
MulAspect(x) == ((x \div 1000) * 163662) \div 100 + ((x % 1000) * 163662) \div 100000
DivAspect(x) == ((x \div 1000) * 611015) \div 1000 + ((x % 1000) * 611015) \div 1000000

\* Math.round(h * ASPECT) and Math.round(h * 0.35) for a height h in pixels
RoundAspect(h) == (h * 163662 + 50000) \div 100000
RoundPreview(h) == (h * 35 + 50) \div 100

\* wrapTwoPi on the turn grid
LambdaUnit == 2^16
wrapTwoPi(lam) == lam % LambdaUnit

\* dxToDeltaLambda: -dx / (viewW / (2 MAX_X)) * 2 / (1 + COS_PHI1) = -2 pi dx / viewW
dxToDeltaLambda(w, dxDevicePx) == -((dxDevicePx * LambdaUnit) \div w.viewW)

\* resize(), its window taken from the page
resize(w) ==
    LET dpr == Max(1, w.devicePixelRatio)
        maxCssW == Max(1, w.innerWidth) * 1000
        maxCssH == Max(1, w.innerHeight) * 1000
        locked == w.lockCssSizeUntilWindowResize /\ w.cssH > 0 /\ w.cssW > 0
        desired == /\ ~w.usedInitialCanvasSize
                   /\ 600000 <= maxCssH
                   /\ MulAspect(600000) <= maxCssW
        cssH == IF locked THEN Min(w.cssH, maxCssH)
                ELSE IF desired THEN 600000
                ELSE Min(maxCssH, DivAspect(maxCssW))
        cssW == IF locked THEN Min(w.cssW, maxCssW) ELSE MulAspect(cssH)
    IN  [w EXCEPT !.dpr = dpr,
                  !.usedInitialCanvasSize = @ \/ ~locked,
                  !.cssW = cssW,
                  !.cssH = cssH,
                  !.viewW = Max(1, (cssW * dpr) \div 1000),
                  !.viewH = Max(1, (cssH * dpr) \div 1000)]

\* requestRender(preview) that returns before it notes the choice when a
\* callback is pending
requestRender_firstWins(w, preview) ==
    IF w.renderPending THEN [w EXCEPT !.lastRequest = preview]
    ELSE [w EXCEPT !.lastRequest = preview,
                   !.usePreview = preview,
                   !.renderPending = TRUE,
                   !.rafQueue = Append(@, [kind |-> "render", run |-> 0])]

\* requestRender(preview); lastRequest is the argument of the last call
requestRender(w, preview) ==
    IF w.renderPending THEN [w EXCEPT !.lastRequest = preview, !.usePreview = preview]
    ELSE [w EXCEPT !.lastRequest = preview,
                   !.usePreview = preview,
                   !.renderPending = TRUE,
                   !.rafQueue = Append(@, [kind |-> "render", run |-> 0])]

SizeMismatch == [error |-> "ImageData size mismatch"]

\* renderWinkel and the two draws that follow it: what reached the canvas
renderWinkel(w, map, buf) ==
    IF buf.width # map.width \/ buf.height # map.height THEN SizeMismatch
    ELSE [map |-> map, buf |-> buf, viewW |-> w.viewW, viewH |-> w.viewH]

\* render() that takes the full mapping whichever buffer it draws into
render_fullMapping(w) ==
    IF w.renderInProgress THEN w
    ELSE LET t == [w EXCEPT !.renderToken = @ + 1]
         IN  IF t.noise = Null \/ t.sortedRaw = Null THEN t
             ELSE LET r == resize(t)
                      buf == IF r.usePreview THEN r.previewBuf ELSE r.fullBuf
                      map == r.mappingFull
                  IN  IF buf = Null \/ map = Null THEN r
                      ELSE [r EXCEPT !.drawn = renderWinkel(r, map, buf)]

\* render(): it awaits nothing, so renderInProgress is false again at its end
render(w) ==
    IF w.renderInProgress THEN w
    ELSE LET t == [w EXCEPT !.renderToken = @ + 1]
         IN  IF t.noise = Null \/ t.sortedRaw = Null THEN t
             ELSE LET r == resize(t)
                      buf == IF r.usePreview THEN r.previewBuf ELSE r.fullBuf
                      map == IF r.usePreview THEN r.mappingPreview ELSE r.mappingFull
                  IN  IF buf = Null \/ map = Null THEN r
                      ELSE [r EXCEPT !.drawn = renderWinkel(r, map, buf)]

\* the row after which buildMapping next awaits a frame, from row `from` on:
\* the first y >= from with (y & 15) = 15; height when the loop ends before it
NextYield(from, height) ==
    IF from + (15 - (from % 16)) < height THEN from + (15 - (from % 16)) ELSE height

\* buildMapping(width, height, label) called by the run: every height here is
\* at least 100, so the first slice ends at an await
buildMapping(w, run, width, height, label) ==
    [w EXCEPT !.runs = (@ \ {r \in @ : r.id = run.id})
                          \cup {[run EXCEPT !.label = label, !.width = width,
                                            !.height = height, !.y = NextYield(0, height)]},
              !.rafQueue = Append(@, [kind |-> "resume", run |-> run.id])]

\* what buildMapping returns, and allocateCanvas2d: a new object of the run
Mapping(run) == [width |-> run.width, height |-> run.height, run |-> run.id]
allocateCanvas2d(run, width, height) == [width |-> width, height |-> height, run |-> run.id]

\* initRenderer() up to its first await
initRenderer(w) ==
    LET fullH == Max(100, w.qualityHeightPx)
        fullW == RoundAspect(fullH)
        previewH == Min(fullH, Max(100, RoundPreview(fullH)))
        previewW == RoundAspect(previewH)
        run == [id |-> w.started + 1, label |-> "preview", width |-> previewW,
                height |-> previewH, y |-> 0, fullW |-> fullW, fullH |-> fullH,
                previewW |-> previewW, previewH |-> previewH]
    IN  buildMapping([w EXCEPT
                        !.sortedRaw = [seed |-> w.seed, subdivisions |-> w.subdivisions],
                        !.noise = [seed |-> w.seed],
                        !.seaLevelFeet =
                            percentileToElevationFeet(w.oceanSAFraction, STD_DEVS).elevFeet,
                        !.started = @ + 1],
                     run, previewW, previewH, "preview")

\* initRenderer() from the return of the preview buildMapping to the next await
AfterPreview(w, run) ==
    buildMapping(
        requestRender(
            [resize([w EXCEPT !.mappingPreview = Mapping(run),
                              !.previewBuf = allocateCanvas2d(run, run.previewW, run.previewH)])
                EXCEPT !.usePreview = TRUE],
            TRUE),
        run, run.fullW, run.fullH, "full")

\* initRenderer() from the return of the full buildMapping to its end
AfterFull(w, run) ==
    requestRender(
        [w EXCEPT !.mappingFull = Mapping(run),
                  !.fullBuf = allocateCanvas2d(run, run.fullW, run.fullH),
                  !.usePreview = FALSE,
                  !.runs = @ \ {run}],
        FALSE)

\* the frame callback of an awaiting buildMapping: the rows up to the next
\* await, or to the end and then on into initRenderer
ResumeRun(w, run) ==
    IF NextYield(run.y + 1, run.height) < run.height
    THEN [w EXCEPT !.runs = (@ \ {run})
                               \cup {[run EXCEPT !.y = NextYield(run.y + 1, run.height)]},
                   !.rafQueue = Append(@, [kind |-> "resume", run |-> run.id])]
    ELSE IF run.label = "preview" THEN AfterPreview(w, run)
    ELSE AfterFull(w, run)

\* the events (messages, pointer events, window resizes) the page is sent
MaxEvents == 3

OwnNonce == "own"
WindowSizes == {<<1200, 800>>, <<500, 400>>}
ClientXs == {0, 100}

InitMsg(viewer, nonce, seed, quality) ==
    [type |-> "TFW_WINKEL_INIT", viewer |-> viewer, nonce |-> nonce, title |-> "Winkel Tripel",
     seed |-> seed, oceanSAFraction |-> 71 * (PUnit \div 100), subdivisions |-> 2,
     qualityHeightPx |-> quality]

\* the messages the window may be sent
Messages ==
    {InitMsg("winkel", OwnNonce, 1, 50), InitMsg("winkel", OwnNonce, 2, 150),
     InitMsg("winkel", "other", 2, 150), InitMsg("flatmap", OwnNonce, 2, 150),
     [InitMsg("winkel", OwnNonce, 2, 150) EXCEPT !.type = "TFW_PING"],
     [InitMsg("winkel", OwnNonce, 2, 150) EXCEPT !.type = "TFW_FLATMAP_INIT"]}

\* main(): the declarations, resize(), the READY message
WinkelInit ==
    /\ \E win \in WindowSizes :
          winkel = resize(
              [nonce |-> OwnNonce, title |-> "", dpr |-> 1, viewW |-> 1, viewH |-> 1,
               usedInitialCanvasSize |-> FALSE, lockCssSizeUntilWindowResize |-> TRUE,
               seed |-> 0, oceanSAFraction |-> 71 * (PUnit \div 100), subdivisions |-> 8,
               qualityHeightPx |-> 600, noise |-> Null, sortedRaw |-> Null,
               seaLevelFeet |-> 0, mappingFull |-> Null, mappingPreview |-> Null,
               fullBuf |-> Null, previewBuf |-> Null, lambda0 |-> 0, dragging |-> FALSE,
               lastClientX |-> 0, renderPending |-> FALSE, renderInProgress |-> FALSE,
               usePreview |-> FALSE, lastRequest |-> FALSE, renderToken |-> 0,
               cssW |-> 0, cssH |-> 0, innerWidth |-> win[1], innerHeight |-> win[2],
               devicePixelRatio |-> 1, drawn |-> Null, readyPosted |-> 1,
               rafQueue |-> <<>>, frame |-> <<>>, runs |-> {}, started |-> 0,
               events |-> 0])
    /\ elevCall = Idle
    /\ pctCall = Idle
    /\ ico = Idle
    /\ terrain = Idle
    /\ ocean = Idle
    /\ cdfCall = Idle
    /\ fnCall = Idle
    /\ pixels = Idle
    /\ simplex = Idle
    /\ task = Idle
    /\ page = Idle
    /\ slider = Idle
    /\ handshake = Idle

\* events are dispatched between frames
BetweenFrames == winkel.frame = <<>>

\* the message listener
OnMessage ==
    /\ BetweenFrames
    /\ winkel.events < MaxEvents
    /\ \E data \in Messages :
          \E w \in {[winkel EXCEPT !.events = @ + 1]} :
            winkel' =
              IF data.type = "TFW_PING" /\ data.viewer = "winkel"
              THEN [w EXCEPT !.readyPosted = @ + 1]
              ELSE IF data.type # "TFW_WINKEL_INIT" \/ data.viewer # "winkel" THEN w
              ELSE IF data.nonce # w.nonce THEN w
              ELSE initRenderer([w EXCEPT !.title = data.title,
                                          !.seed = data.seed,
                                          !.oceanSAFraction = data.oceanSAFraction,
                                          !.subdivisions = data.subdivisions,
                                          !.qualityHeightPx = data.qualityHeightPx])
    /\ UNCHANGED <<elevCall, pctCall, ico, terrain, ocean, cdfCall, fnCall, pixels, simplex, task, page, slider, handshake>>

\* the pointerdown listener
PointerDown ==
    /\ BetweenFrames
    /\ winkel.events < MaxEvents
    /\ \E clientX \in ClientXs :
          winkel' = [winkel EXCEPT !.events = @ + 1, !.dragging = TRUE,
                                   !.lastClientX = clientX]
    /\ UNCHANGED <<elevCall, pctCall, ico, terrain, ocean, cdfCall, fnCall, pixels, simplex, task, page, slider, handshake>>

\* the pointermove listener
PointerMove ==
    /\ BetweenFrames
    /\ winkel.events < MaxEvents
    /\ \E clientX \in ClientXs :
          winkel' =
            IF ~winkel.dragging THEN [winkel EXCEPT !.events = @ + 1]
            ELSE requestRender(
                   [winkel EXCEPT
                      !.events = @ + 1,
                      !.lastClientX = clientX,
                      !.lambda0 = wrapTwoPi(
                          @ + dxToDeltaLambda(winkel, (clientX - winkel.lastClientX) * winkel.dpr))],
                   TRUE)
    /\ UNCHANGED <<elevCall, pctCall, ico, terrain, ocean, cdfCall, fnCall, pixels, simplex, task, page, slider, handshake>>

\* endDrag, the pointerup and pointercancel listener
EndDrag ==
    /\ BetweenFrames
    /\ winkel.events < MaxEvents
    /\ winkel' =
          IF ~winkel.dragging THEN [winkel EXCEPT !.events = @ + 1]
          ELSE requestRender([winkel EXCEPT !.events = @ + 1, !.dragging = FALSE], FALSE)
    /\ UNCHANGED <<elevCall, pctCall, ico, terrain, ocean, cdfCall, fnCall, pixels, simplex, task, page, slider, handshake>>

\* a resize listener that also rebuilds the grids, as a page that built them
\* for the size of the canvas would
WindowResize_rebuilding ==
    /\ BetweenFrames
    /\ winkel.events < MaxEvents
    /\ \E win \in WindowSizes :
          winkel' = initRenderer(
                      requestRender(
                        resize([winkel EXCEPT !.events = @ + 1,
                                              !.innerWidth = win[1],
                                              !.innerHeight = win[2],
                                              !.lockCssSizeUntilWindowResize = FALSE]),
                        winkel.dragging))
    /\ UNCHANGED <<elevCall, pctCall, ico, terrain, ocean, cdfCall, fnCall, pixels, simplex, task, page, slider, handshake>>

\* the resize listener of the window, the window having taken the size win
WindowResize ==
    /\ BetweenFrames
    /\ winkel.events < MaxEvents
    /\ \E win \in WindowSizes :
          winkel' = requestRender(
                      resize([winkel EXCEPT !.events = @ + 1,
                                            !.innerWidth = win[1],
                                            !.innerHeight = win[2],
                                            !.lockCssSizeUntilWindowResize = FALSE]),
                      winkel.dragging)
    /\ UNCHANGED <<elevCall, pctCall, ico, terrain, ocean, cdfCall, fnCall, pixels, simplex, task, page, slider, handshake>>

\* a frame begins: the callbacks requested so far are the ones it runs
BeginFrame ==
    /\ BetweenFrames
    /\ winkel.rafQueue # <<>>
    /\ winkel' = [winkel EXCEPT !.frame = winkel.rafQueue, !.rafQueue = <<>>]
    /\ UNCHANGED <<elevCall, pctCall, ico, terrain, ocean, cdfCall, fnCall, pixels, simplex, task, page, slider, handshake>>

\* the frame callback of requestRender
RenderCallback ==
    /\ winkel.frame # <<>>
    /\ Head(winkel.frame).kind = "render"
    /\ winkel' = render([winkel EXCEPT !.frame = Tail(@), !.renderPending = FALSE])
    /\ UNCHANGED <<elevCall, pctCall, ico, terrain, ocean, cdfCall, fnCall, pixels, simplex, task, page, slider, handshake>>

\* the frame callback of an await in buildMapping, and what runs on from it
ResumeCallback ==
    /\ winkel.frame # <<>>
    /\ Head(winkel.frame).kind = "resume"
    /\ \E run \in {r \in winkel.runs : r.id = Head(winkel.frame).run} :
          winkel' = ResumeRun([winkel EXCEPT !.frame = Tail(@)], run)
    /\ UNCHANGED <<elevCall, pctCall, ico, terrain, ocean, cdfCall, fnCall, pixels, simplex, task, page, slider, handshake>>

WinkelNext ==
    \/ OnMessage
    \/ PointerDown
    \/ PointerMove
    \/ EndDrag
    \/ WindowResize
    \/ BeginFrame
    \/ RenderCallback
    \/ ResumeCallback

SpecViewer == WinkelInit /\ [][WinkelNext]_vars

\* the browser runs its frames: the callbacks requested are called
SpecViewerFair ==
    SpecViewer /\ WF_vars(BeginFrame) /\ WF_vars(RenderCallback) /\ WF_vars(ResumeCallback)

\* the four variables a build stores its results in
BuildResults == {"mappingPreview", "previewBuf", "mappingFull", "fullBuf"}

(***************************************************************************)
(* C7: when a newer initRenderer is started while an older one awaits in   *)
(* buildMapping, the older one's completion is discarded: whatever is      *)
(* written to mappingPreview, previewBuf, mappingFull or fullBuf comes     *)
(* from the run started last.                                              *)
(***************************************************************************)
C7_OlderBuildDiscarded ==
    [][\A f \in BuildResults :
          winkel'[f] # winkel[f] => winkel'[f].run = winkel'.started]_vars

\* C7, the final state: with no run left, the results are those of the last
\* init message
C7_FinalStateOfNewestInit ==
    (winkel.started > 0 /\ winkel.runs = {}) =>
        /\ \A f \in BuildResults : winkel[f].run = winkel.started
        /\ winkel.mappingFull.height = Max(100, winkel.qualityHeightPx)

(***************************************************************************)
(* C8: at most one build is in progress at any time: no two runs of        *)
(* initRenderer (of buildMapping) wait at a yield point together.          *)
(***************************************************************************)
C8_AtMostOneBuildSuspended == Cardinality(winkel.runs) <= 1

\* the sample grids and the builds under way
GridState == <<winkel.mappingPreview, winkel.mappingFull, winkel.runs>>

(***************************************************************************)
(* C9: a sample grid, once built, is reused across pans, redraws and       *)
(* window resizes: the pointer listeners, render() and the resize listener *)
(* leave mappingPreview and mappingFull unchanged and start no build; a    *)
(* grid is stored only by a run of initRenderer, which an init message     *)
(* starts.                                                                 *)
(***************************************************************************)
C9_GridReusedUntilInit ==
    [][/\ (PointerDown \/ PointerMove \/ EndDrag \/ RenderCallback \/ WindowResize)
            => UNCHANGED GridState
       /\ (winkel'.mappingPreview # winkel.mappingPreview
              \/ winkel'.mappingFull # winkel.mappingFull) => ResumeCallback
       /\ winkel'.started # winkel.started => OnMessage]_vars

\* the full grid was drawn, and the window was given another size afterwards
C9_Witness ==
    /\ winkel.mappingFull # Null
    /\ winkel.drawn # Null
    /\ winkel.drawn # SizeMismatch
    /\ winkel.drawn.map = winkel.mappingFull
    /\ winkel.drawn.viewW # winkel.viewW
    /\ winkel.runs = {}

\* C9 as stated: a window resize that changes the size of the canvas causes
\* the grid that was built to be rebuilt
C9_AsStated ==
    [][(WindowResize /\ winkel.mappingFull # Null /\ winkel'.viewW # winkel.viewW)
          => ~UNCHANGED GridState]_vars

(***************************************************************************)
(* The terrain of one seed: buildRawDistribution, buildTerrainMesh and the *)
(* flat-map image path.                                                    *)
(*                                                                         *)
(* A raw noise value r is the integer r * RawOne, RawOne = 2^28, which     *)
(* stands for the double the source computes.  A Float32Array keeps 24     *)
(* significant bits of what is stored in it.                               *)
(***************************************************************************)
RawOne == 2^28

\* a store into a Float32Array: x rounded to 24 significant bits, ties to even
Fround24[x \in Int] ==
    LET e == Log2Floor[Abs(x)]
        round[a \in Nat, step \in Nat] ==
            IF 2 * (a % step) > step
                  \/ (2 * (a % step) = step /\ (a \div step) % 2 = 1)
            THEN (a \div step + 1) * step
            ELSE (a \div step) * step
    IN  IF e < 24 THEN x ELSE Sgn(x) * round[Abs(x), 2^(e - 23)]

\* the generator of the SimplexNoise3D constructor: (seed * 9301 + 49297) % 233280,
\* the product taken in two parts to stay within 32 bits
Lcg[seed \in Nat] ==
    ((((seed \div 16) * 9301) % 233280) * 16 + (seed % 16) * 9301 + 49297) % 233280

LcgAt[seed \in Nat, k \in Nat] == IF k = 0 THEN Lcg[seed] ELSE Lcg[LcgAt[seed, k - 1]]

\* rawNoiseOnSphere at vertex i of the reference mesh.  The fBm sum
\* `combined + equatorBias` is a seeded pseudo-random field of amplitude
\* 1.1; the clamp to [-1, 1] is the source's.
rawNoiseOnSphere(seed, i) ==
    clamp[LcgAt[seed, i] * 2531 - 295214574, -RawOne, RawOne]

\* unitMesh.vertices.length / 4 for createIcosphere(subdivisions, 1, 1)
VertexCount(subdivisions) == 10 * 4^subdivisions + 2

\* the Float32Array rawValues; vertex i is element i + 1
RawValues[seed \in Nat, vertexCount \in Nat] ==
    [i \in 1..vertexCount |-> Fround24[rawNoiseOnSphere(seed, i - 1)]]

\* order.sort((a, b) => rawValues[a] - rawValues[b]), a stable sort: the rank
\* of vertex i is the number of vertices that are smaller, or equal and earlier
Ranks[rawValues \in Seq(Int)] ==
    [i \in 1..Len(rawValues) |->
        Cardinality({j \in 1..Len(rawValues) :
                        \/ rawValues[j] < rawValues[i]
                        \/ (rawValues[j] = rawValues[i] /\ j < i)})]

\* sortedRaw[rank] = rawValues[order[rank]]
SortedRaw[rawValues \in Seq(Int), ranks \in Seq(Nat)] ==
    [r \in 1..Len(rawValues) |->
        rawValues[CHOOSE i \in 1..Len(rawValues) : ranks[i] = r - 1]]

buildRawDistribution(seed, subdivisions) ==
    LET sorted[rawValues \in Seq(Int)] == SortedRaw[rawValues, Ranks[rawValues]]
    IN  [sortedRaw |-> sorted[RawValues[seed, VertexCount(subdivisions)]]]

\* the Float32Array percentiles: percentiles[idx] = (rank + 0.5) / vertexCount
Percentiles32[ranks \in Seq(Nat)] ==
    [i \in 1..Len(ranks) |-> Fround24[HalfBucket[ranks[i], Len(ranks)]]]

\* percentileToElevationFeet(percentiles[i], STD_DEVS) for every vertex
Elevations[percentiles \in Seq(Nat)] ==
    [i \in 1..Len(percentiles) |-> percentileToElevationFeet(percentiles[i], STD_DEVS)]

\* what percentileToElevationFeet returns
ElevationResult == [elevFeet : Int, zStd : Int]

\* the statistics loop of buildTerrainMesh over the per-vertex elevations
TerrainStats[elev \in Seq(ElevationResult), seaLevelFeet \in Int] ==
    LET n == Len(elev)
        count(P(_)) == Cardinality({i \in 1..n : P(elev[i])})
        least[x \in Int, y \in Int] == IF x < y THEN x ELSE y
        greatest[x \in Int, y \in Int] == IF x > y THEN x ELSE y
        minOver[lo \in Nat, hi \in Nat] ==
            IF lo = hi THEN elev[lo].elevFeet
            ELSE least[minOver[lo, (lo + hi) \div 2], minOver[(lo + hi) \div 2 + 1, hi]]
        maxOver[lo \in Nat, hi \in Nat] ==
            IF lo = hi THEN elev[lo].elevFeet
            ELSE greatest[maxOver[lo, (lo + hi) \div 2], maxOver[(lo + hi) \div 2 + 1, hi]]
        frac[oceanCount \in Nat] == IF n > 0 THEN DivShift[oceanCount, n, 30] ELSE 0
    IN  [totalVerts |-> n,
         countNegElev |-> count(LAMBDA r : r.elevFeet < 0),
         countPosElev |-> count(LAMBDA r : ~(r.elevFeet < 0)),
         countClampedLow |-> count(LAMBDA r : r.elevFeet <= LOWEST_ELEVATION_LIMIT * FUnit),
         countClampedHigh |-> count(LAMBDA r : r.elevFeet >= HIGHEST_ELEVATION_LIMIT * FUnit),
         minElevFeet |-> minOver[1, n],
         maxElevFeet |-> maxOver[1, n],
         oceanFracActual |-> frac[count(LAMBDA r : r.elevFeet < seaLevelFeet)],
         seaLevelFeet |-> seaLevelFeet,
         countAbsZGe1 |-> count(LAMBDA r : Abs(r.zStd) >= 1 * ZUnit),
         countAbsZGe2 |-> count(LAMBDA r : Abs(r.zStd) >= 2 * ZUnit),
         countAbsZGe3 |-> count(LAMBDA r : Abs(r.zStd) >= 3 * ZUnit),
         countAbsZGe4 |-> count(LAMBDA r : Abs(r.zStd) >= 4 * ZUnit)]

\* the mesh data: vertexElevFeet[i] is outVertices[i * 4 + 3], a Float32Array
TerrainMeshData[rawValues \in Seq(Int), seaLevelFeet \in Int] ==
    LET data[elev \in Seq(ElevationResult)] ==
            [vertexElevFeet |-> [i \in 1..Len(elev) |-> Fround24[elev[i].elevFeet]],
             seaLevelFeet |-> seaLevelFeet,
             stats |-> TerrainStats[elev, seaLevelFeet],
             distribution |-> [sortedRaw |-> SortedRaw[rawValues, Ranks[rawValues]]]]
    IN  data[Elevations[Percentiles32[Ranks[rawValues]]]]

buildTerrainMesh(seed, oceanSAFraction, subdivisions) ==
    TerrainMeshData[RawValues[seed, VertexCount(subdivisions)],
                    percentileToElevationFeet(oceanSAFraction, STD_DEVS).elevFeet]

\* the body of the pixel loop of renderFlatMapCanvas, at the direction of
\* vertex i of the reference mesh
flatMapSample(seed, sortedRaw, i) ==
    LET elevOf[pct \in Nat] == percentileToElevationFeet(pct, STD_DEVS).elevFeet
        sample[raw \in Int, pct \in Nat] ==
            [raw |-> raw, pct |-> pct, elevFeet |-> elevOf[pct]]
        at[raw \in Int] == sample[raw, rawToPercentile(sortedRaw, raw)]
    IN  at[rawNoiseOnSphere(seed, i)]

(***************************************************************************)
(* The views of one seed.  A caller builds the distribution, builds the    *)
(* mesh, and samples the flat map at the directions of the mesh vertices,  *)
(* one vertex after the other.                                             *)
(***************************************************************************)
MaxSeed == 3
MaxTerrainSubdivisions == 1
OceanFractions == {29 * (PUnit \div 100), 71 * (PUnit \div 100)}

TerrainInit ==
    /\ terrain \in [pc : {"views"}, seed : 0..MaxSeed,
                    subdivisions : 0..MaxTerrainSubdivisions,
                    oceanSAFraction : OceanFractions,
                    distribution : {Null}, mesh : {Null}, samples : {<<>>}]
    /\ elevCall = Idle
    /\ pctCall = Idle
    /\ ico = Idle
    /\ winkel = Idle
    /\ ocean = Idle
    /\ cdfCall = Idle
    /\ fnCall = Idle
    /\ pixels = Idle
    /\ simplex = Idle
    /\ task = Idle
    /\ page = Idle
    /\ slider = Idle
    /\ handshake = Idle

CallBuildRawDistribution ==
    /\ terrain.pc = "views"
    /\ terrain.distribution = Null
    /\ terrain' = [terrain EXCEPT
                     !.distribution = buildRawDistribution(terrain.seed, terrain.subdivisions)]
    /\ UNCHANGED <<elevCall, pctCall, ico, winkel, ocean, cdfCall, fnCall, pixels, simplex, task, page, slider, handshake>>

CallBuildTerrainMesh ==
    /\ terrain.pc = "views"
    /\ terrain.mesh = Null
    /\ terrain' = [terrain EXCEPT
                     !.mesh = buildTerrainMesh(terrain.seed, terrain.oceanSAFraction,
                                               terrain.subdivisions)]
    /\ UNCHANGED <<elevCall, pctCall, ico, winkel, ocean, cdfCall, fnCall, pixels, simplex, task, page, slider, handshake>>

\* the flat map uses the distribution it was given
SampleFlatMap ==
    /\ terrain.pc = "views"
    /\ terrain.distribution # Null
    /\ Len(terrain.samples) < VertexCount(terrain.subdivisions)
    /\ terrain' = [terrain EXCEPT
                     !.samples = Append(@, flatMapSample(terrain.seed,
                                                         terrain.distribution.sortedRaw,
                                                         Len(terrain.samples)))]
    /\ UNCHANGED <<elevCall, pctCall, ico, winkel, ocean, cdfCall, fnCall, pixels, simplex, task, page, slider, handshake>>

TerrainNext == CallBuildRawDistribution \/ CallBuildTerrainMesh \/ SampleFlatMap

SpecTerrain == TerrainInit /\ [][TerrainNext]_vars

\* buildRawDistribution and buildTerrainMesh return the same sortedRaw
SameSortedRaw ==
    (terrain.pc = "views" /\ terrain.distribution # Null /\ terrain.mesh # Null)
        => terrain.distribution.sortedRaw = terrain.mesh.distribution.sortedRaw

(***************************************************************************)
(* C6: the views of one seed agree on elevation: the two builders return   *)
(* the same sortedRaw, and at every vertex of the reference mesh the image *)
(* path gives the elevFeet that buildTerrainMesh stores for the vertex.    *)
(***************************************************************************)
C6_ViewsAgreeOnElevation ==
    (terrain.pc = "views" /\ terrain.mesh # Null)
        => /\ SameSortedRaw
           /\ \A i \in 1..Len(terrain.samples) :
                 terrain.samples[i].elevFeet = terrain.mesh.vertexElevFeet[i]

(***************************************************************************)
(* The ocean statistics of buildTerrainMesh.  The ranks of the vertices    *)
(* are a permutation of 0..N-1 whatever the raw field is, and the          *)
(* statistics count over all vertices, so they are those of a field that   *)
(* grows with the vertex index (StatsIndependentOfSeed, checked on the     *)
(* meshes of SpecTerrain).                                                 *)
(***************************************************************************)
TerrainMeshStats(oceanSAFraction, subdivisions) ==
    TerrainStats[Elevations[Percentiles32[[i \in 1..VertexCount(subdivisions) |-> i - 1]]],
                 percentileToElevationFeet(oceanSAFraction, STD_DEVS).elevFeet]

StatsIndependentOfSeed ==
    (terrain.pc = "views" /\ terrain.mesh # Null)
        => terrain.mesh.stats = TerrainMeshStats(terrain.oceanSAFraction, terrain.subdivisions)

MaxOceanSubdivisions == 6
RequestedOceanFractions ==
    {EPS, 3 * (PUnit \div 100000), PUnit \div 100, 29 * (PUnit \div 100), PUnit \div 2,
     71 * (PUnit \div 100), PUnit - PUnit \div 100000, PUnit - EPS}

OceanInit ==
    /\ ocean \in [pc : {"call"}, subdivisions : 0..MaxOceanSubdivisions,
                  oceanSAFraction : RequestedOceanFractions, stats : {Null}]
    /\ elevCall = Idle
    /\ pctCall = Idle
    /\ ico = Idle
    /\ winkel = Idle
    /\ terrain = Idle
    /\ cdfCall = Idle
    /\ fnCall = Idle
    /\ pixels = Idle
    /\ simplex = Idle
    /\ task = Idle
    /\ page = Idle
    /\ slider = Idle
    /\ handshake = Idle

CallBuildTerrainMeshForStats ==
    /\ ocean.pc = "call"
    /\ ocean' = [ocean EXCEPT
                   !.pc = "done",
                   !.stats = TerrainMeshStats(ocean.oceanSAFraction, ocean.subdivisions)]
    /\ UNCHANGED <<elevCall, pctCall, ico, winkel, terrain, cdfCall, fnCall, pixels, simplex, task, page, slider, handshake>>

OceanNext == CallBuildTerrainMeshForStats

SpecOcean == OceanInit /\ [][OceanNext]_vars

(***************************************************************************)
(* C1: buildTerrainMesh realizes the requested ocean fraction: the         *)
(* reported stats.oceanFracActual differs from oceanSAFraction by at most  *)
(* 1/N, N the number of vertices, for every fraction in (0,1).  (One unit  *)
(* of the grid is allowed for the rounding of the two quotients.)          *)
(***************************************************************************)
C1_OceanFractionRealized ==
    ocean.pc = "done"
        => Abs(ocean.stats.oceanFracActual - ocean.oceanSAFraction)
              <= DivShift[1, ocean.stats.totalVerts, 30] + 1

(***************************************************************************)
(* C11: during subdivision each undirected edge {a, b} gets exactly one    *)
(* midpoint vertex, reused by both triangles that share the edge whatever  *)
(* the order of the request: no two vertices are the midpoint of the same  *)
(* edge, every midpoint ever pushed is still in the cache under the key of *)
(* its own edge (the cache is kept across the passes), every key of the    *)
(* cache leads to the midpoint of the edge it names, and the faces pushed  *)
(* for a face (a, b, c) carry the midpoints of (a,b), (b,c) and (c,a).     *)
(***************************************************************************)
C11_OneMidpointPerEdge ==
    ico.pc # "idle" =>
        /\ Cardinality({ico.verts[i] : i \in 1..Len(ico.verts)}) = Len(ico.verts)
        /\ \A i \in 13..Len(ico.verts) :
              /\ MidKey(ico.verts[i][1], ico.verts[i][2]) \in DOMAIN ico.midCache
              /\ ico.midCache[MidKey(ico.verts[i][1], ico.verts[i][2])] = i - 1
        /\ \A key \in DOMAIN ico.midCache :
              /\ ico.midCache[key] + 1 \in 13..Len(ico.verts)
              /\ key = MidKey(ico.verts[ico.midCache[key] + 1][1],
                              ico.verts[ico.midCache[key] + 1][2])
        /\ ico.pc = "subdivide" =>
              \A k \in 1..(Len(ico.newFaces) \div 4) :
                  /\ ico.verts[ico.newFaces[4 * k][1] + 1]
                        = Midpoint(ico.faces[k][1], ico.faces[k][2])
                  /\ ico.verts[ico.newFaces[4 * k][2] + 1]
                        = Midpoint(ico.faces[k][2], ico.faces[k][3])
                  /\ ico.verts[ico.newFaces[4 * k][3] + 1]
                        = Midpoint(ico.faces[k][3], ico.faces[k][1])

\* the second pass is over: every edge of both passes was requested from its
\* two faces, once as (a, b) and once as (b, a)
C11_Witness ==
    /\ ico.pc = "subdivide"
    /\ ico.s = 1
    /\ ico.next = Len(ico.faces)
    /\ Cardinality(DOMAIN ico.midCache) = 30 + 120

(***************************************************************************)
(* Calls of inverseNormalCDF: direct, through percentileToElevationFeet    *)
(* (terrain.ts) and through seaLevelFromOceanSA (index.ts).  A call ends   *)
(* with a value or with the exception inverseNormalCDF throws, which no    *)
(* caller catches.                                                         *)
(***************************************************************************)
Threw(message) == [threw |-> message]
Returned(value) == [returned |-> value]

\* the clamps of the caller with 0 in the place of eps
uPrime_closedUnit(u, stdDevs) ==
    LET split[uu \in Int, w \in Int] ==
            IF uu < w
            THEN clamp[DivShift[uu, w, 29], 0, PUnit \div 2]
            ELSE clamp[PUnit \div 2 + DivShift[uu - w, PUnit - w, 29], PUnit \div 2, PUnit]
    IN  split[clamp[u, 0, PUnit], SplitWeight(stdDevs)]

\* the argument percentileToElevationFeet passes to inverseNormalCDF
uPrime(u, stdDevs) == SplitPercentile[clamp[u, EPS, PUnit - EPS], SplitWeight(stdDevs)]

\* seaLevelFromOceanSA of index.ts: the same statements as
\* percentileToElevationFeet, with the inverseNormalCDF of index.ts
seaLevelFromOceanSA(u, stdDevs) ==
    LET splitAt[uu \in Int, w \in Int] ==
            ElevationOfScore[
                clamp[inverseNormalCDF(SplitPercentile[uu, w]),
                      -(stdDevs * ZUnit), stdDevs * ZUnit],
                IF uu < w THEN sigmaLeftFeet(stdDevs) ELSE sigmaRightFeet(stdDevs)]
    IN  splitAt[clamp[u, EPS, PUnit - EPS], SplitWeight(stdDevs)]

\* numbers a caller may hand over: inside (0,1), on its ends, and outside
RealInputs ==
    Percentiles \cup {-PUnit, -(PUnit \div 2), -EPS, -1, 0, PUnit, PUnit + 1,
                      PUnit + EPS, PUnit + PUnit \div 2}

CdfInit ==
    /\ cdfCall \in [pc : {"call"},
                    fn : {"inverseNormalCDF", "percentileToElevationFeet",
                          "seaLevelFromOceanSA"},
                    u : RealInputs, stdDevs : StdDevChoices,
                    passed : {Null}, outcome : {Null}]
    /\ cdfCall.fn = "inverseNormalCDF" => cdfCall.stdDevs = STD_DEVS
    /\ elevCall = Idle
    /\ pctCall = Idle
    /\ ico = Idle
    /\ winkel = Idle
    /\ terrain = Idle
    /\ ocean = Idle
    /\ fnCall = Idle
    /\ pixels = Idle
    /\ simplex = Idle
    /\ task = Idle
    /\ page = Idle
    /\ slider = Idle
    /\ handshake = Idle

CallInverseNormalCDF ==
    /\ cdfCall.pc = "call"
    /\ cdfCall.fn = "inverseNormalCDF"
    /\ cdfCall' = [cdfCall EXCEPT
                     !.pc = "done",
                     !.passed = cdfCall.u,
                     !.outcome = IF inverseNormalCDFThrows(cdfCall.u)
                                 THEN Threw(inverseNormalCDF(cdfCall.u))
                                 ELSE Returned(inverseNormalCDF(cdfCall.u))]
    /\ UNCHANGED <<elevCall, pctCall, ico, winkel, terrain, ocean, fnCall, pixels, simplex, task, page, slider, handshake>>

CallThroughPercentileToElevationFeet ==
    /\ cdfCall.pc = "call"
    /\ cdfCall.fn = "percentileToElevationFeet"
    /\ \E p \in {uPrime(cdfCall.u, cdfCall.stdDevs)} :
          cdfCall' = [cdfCall EXCEPT
                        !.pc = "done",
                        !.passed = p,
                        !.outcome =
                            IF inverseNormalCDFThrows(p)
                            THEN Threw(inverseNormalCDF(p))
                            ELSE Returned(percentileToElevationFeet(cdfCall.u,
                                                                    cdfCall.stdDevs))]
    /\ UNCHANGED <<elevCall, pctCall, ico, winkel, terrain, ocean, fnCall, pixels, simplex, task, page, slider, handshake>>

CallThroughSeaLevelFromOceanSA ==
    /\ cdfCall.pc = "call"
    /\ cdfCall.fn = "seaLevelFromOceanSA"
    /\ \E p \in {uPrime(cdfCall.u, cdfCall.stdDevs)} :
          cdfCall' = [cdfCall EXCEPT
                        !.pc = "done",
                        !.passed = p,
                        !.outcome =
                            IF inverseNormalCDFThrows(p)
                            THEN Threw(inverseNormalCDF(p))
                            ELSE Returned(seaLevelFromOceanSA(cdfCall.u, cdfCall.stdDevs))]
    /\ UNCHANGED <<elevCall, pctCall, ico, winkel, terrain, ocean, fnCall, pixels, simplex, task, page, slider, handshake>>

CdfNext ==
    \/ CallInverseNormalCDF
    \/ CallThroughPercentileToElevationFeet
    \/ CallThroughSeaLevelFromOceanSA

SpecCdf == CdfInit /\ [][CdfNext]_vars

(***************************************************************************)
(* C12: inverseNormalCDF(p) throws for every p <= 0 and every p >= 1, and  *)
(* returns a number without throwing for every p strictly inside (0,1).    *)
(***************************************************************************)
C12_RejectsOutsideOpenUnit ==
    (cdfCall.pc = "done" /\ cdfCall.fn = "inverseNormalCDF") =>
        /\ (cdfCall.u <= 0 \/ cdfCall.u >= PUnit) =>
              cdfCall.outcome = Threw(PMustBeInOpenUnit)
        /\ (0 < cdfCall.u /\ cdfCall.u < PUnit) =>
              /\ DOMAIN cdfCall.outcome = {"returned"}
              /\ cdfCall.outcome.returned \in Int

\* the call with p = 1 was rejected
C12_Witness ==
    /\ cdfCall.pc = "done"
    /\ cdfCall.fn = "inverseNormalCDF"
    /\ cdfCall.u = PUnit
    /\ cdfCall.outcome = Threw(PMustBeInOpenUnit)

(***************************************************************************)
(* C13: every caller pre-clamps: for any input u, the ocean fractions 0    *)
(* and 1 and the numbers outside [0,1] included, percentileToElevationFeet *)
(* and seaLevelFromOceanSA pass inverseNormalCDF an argument inside        *)
(* [eps, 1 - eps], eps = 1e-6, and the call returns: the rejection is      *)
(* never triggered through them.                                           *)
(***************************************************************************)
C13_CallersPreClamp ==
    (cdfCall.pc = "done" /\ cdfCall.fn # "inverseNormalCDF") =>
        /\ EPS <= cdfCall.passed
        /\ cdfCall.passed <= PUnit - EPS
        /\ DOMAIN cdfCall.outcome = {"returned"}

\* a caller was given an ocean fraction of 1 or more, or of 0 or less
C13_Witness ==
    /\ cdfCall.pc = "done"
    /\ cdfCall.fn = "seaLevelFromOceanSA"
    /\ cdfCall.u >= PUnit
    /\ cdfCall.passed = PUnit - EPS
    /\ DOMAIN cdfCall.outcome = {"returned"}

(***************************************************************************)
(* The Winkel Tripel projection on the row of the equator.                 *)
(*                                                                         *)
(* Angles (radians) and plane coordinates are multiples of 2^-28; slopes   *)
(* and sinc are on the ZUnit grid.  The model follows winkelForward and    *)
(* winkelInverse for yT = 0, the row buildMapping computes for a mapping   *)
(* of height 1 (v = 0.5, projY = 0).  There phi is 0, or eps in the finite *)
(* difference, so that on the grid cosPhi = 1, sinPhi = phi and            *)
(* alpha = acos(cosPhi * cosHalfLam) = |lambda / 2|.                       *)
(***************************************************************************)
AUnit == 2^28
PI == 843314857
MAX_Y == PI \div 2
MAX_X == (PI + 2 * AUnit) \div 2
\* Math.cos(Math.acos(2 / Math.PI))
COS_PHI1 == DivShift[2 * AUnit, PI, 28]
TWO_PI == PI * 2

\* floor(a * b / 2^28) for 0 <= a < 2^31, 0 <= b < 2^28, by 15-bit halves
MulA[a \in Nat, b \in Nat] ==
    LET ah == a \div 2^15
        al == a % 2^15
        bh == b \div 2^15
        bl == b % 2^15
    IN  4 * ah * bh + (ah * bl + al * bh + (al * bl) \div 2^15) \div 2^13

\* floor(a * r / ZUnit) for 0 <= a < 2^31 and a ratio 0 <= r < 2^21, by 10-bit limbs
MulZ[a \in Nat, r \in Nat] ==
    (a \div 2^30) * (r * 2^10) + ((a \div 2^20) % 2^10) * r
        + ((((a \div 2^10) % 2^10) * r) \div 2^10) + (((a % 2^10) * r) \div 2^20)

\* ((lam + PI) % TWO_PI + TWO_PI) % TWO_PI - PI: the remainder of JavaScript made
\* non-negative, which is the % of TLA+
wrapPi[lam \in Int] == ((lam + PI) % TWO_PI) - PI

\* Math.sin on the ZUnit grid for 0 <= x <= 2, by its series
FxSin[x \in Nat] ==
    LET x2 == FxMulU[x, x]
        t5 == ZUnit - FxMulU[x2, ZUnit \div 110]
        t4 == ZUnit - FxMulU[x2, FxMulU[t5, ZUnit \div 72]]
        t3 == ZUnit - FxMulU[x2, FxMulU[t4, ZUnit \div 42]]
        t2 == ZUnit - FxMulU[x2, FxMulU[t3, ZUnit \div 20]]
        t1 == ZUnit - FxMulU[x2, FxMulU[t2, ZUnit \div 6]]
    IN  FxMulU[x, t1]

\* sinc(x) on the ZUnit grid, x >= 0 on the ZUnit grid (1e-6 is one unit)
sinc[x \in Nat] ==
    IF x < 1 THEN ZUnit - FxMulU[x, x] \div 6
    ELSE FxDiv[FxSin[x], x]

\* winkelForward for phi = 0 and phi = eps: xA = 2 cosPhi sinHalfLam / s is
\* lambda, yA = sinPhi / s is phi / sinc(|lambda / 2|)
winkelForward(lambda, phi) ==
    LET forward[lam \in Int, ph \in Nat] ==
            [x |-> (lam + Sgn(lam) * MulA[Abs(lam), COS_PHI1]) \div 2,
             y |-> (DivShift[ph, sinc[Abs(lam) \div 2^9], 20] + ph) \div 2]
    IN  forward[lambda, phi]

\* eps = 1e-6, tol = 5e-9 and the bounds 2e-6 and 2e-3 on the residual, on
\* the grid: x < 5e-9 is x < 1.34 units, which for a whole x is x < 2
NewtonEps == 268
NewtonTol == 2
FinalTol == 537
ReprojectionTol == 536870
TrustRegion == 3 * (AUnit \div 4)
MaxNewtonIterations == 7

\* a * slope / det for a residual a on the AUnit grid and slopes on the ZUnit grid
NewtonQuotient[a \in Int, slope \in Int, det \in Int] ==
    Sgn(a) * Sgn(slope) * Sgn(det) * MulZ[Abs(a), FxDiv[Abs(slope), Abs(det)]]

\* one pass of the body of the loop of winkelInverse for yT = 0: the exit
\* taken, and for a Newton step the clamped step and the next iterate
NewtonPass[xT \in Int, lambda \in Int, phi \in Int] ==
    LET f == winkelForward(lambda, phi)
        fLam == winkelForward(lambda + NewtonEps, phi)
        fPhi == winkelForward(lambda, phi + NewtonEps)
        update[stepLam \in Int, stepPhi \in Int] ==
            [exit |-> "step", stepLam |-> stepLam, stepPhi |-> stepPhi,
             lambda |-> wrapPi[lambda - stepLam],
             phi |-> clamp[phi - stepPhi, -MAX_Y, MAX_Y]]
        step[Fx \in Int, Fy \in Int, dxdLam \in Int, dydLam \in Int, dxdPhi \in Int, dydPhi \in Int] ==
            LET next[det \in Int] ==
                    IF Abs(det) < 1
                    THEN [exit |-> "singular", stepLam |-> 0, stepPhi |-> 0,
                          lambda |-> lambda, phi |-> phi]
                    ELSE update[clamp[NewtonQuotient[Fx, dydPhi, det]
                                          - NewtonQuotient[Fy, dxdPhi, det],
                                      -TrustRegion, TrustRegion],
                                clamp[NewtonQuotient[Fy, dxdLam, det]
                                          - NewtonQuotient[Fx, dydLam, det],
                                      -TrustRegion, TrustRegion]]
            IN  next[FxMul[dxdLam, dydPhi] - FxMul[dxdPhi, dydLam]]
        body[Fx \in Int, Fy \in Int] ==
            IF Abs(Fx) + Abs(Fy) < NewtonTol
            THEN [exit |-> "converged", stepLam |-> 0, stepPhi |-> 0,
                  lambda |-> wrapPi[lambda], phi |-> clamp[phi, -MAX_Y, MAX_Y]]
            ELSE step[Fx, Fy,
                      Sgn(fLam.x - f.x) * DivShift[Abs(fLam.x - f.x), NewtonEps, 20],
                      Sgn(fLam.y - f.y) * DivShift[Abs(fLam.y - f.y), NewtonEps, 20],
                      Sgn(fPhi.x - f.x) * DivShift[Abs(fPhi.x - f.x), NewtonEps, 20],
                      Sgn(fPhi.y - f.y) * DivShift[Abs(fPhi.y - f.y), NewtonEps, 20]]
    IN  body[f.x - xT, f.y - 0]

\* the final check after the loop: the pair, or null
NewtonFinal[xT \in Int, lambda \in Int, phi \in Int] ==
    LET accept[fEnd \in [x : Int, y : Int]] ==
            IF Abs(fEnd.x - xT) + Abs(fEnd.y - 0) < FinalTol
            THEN [lambda |-> wrapPi[lambda], phi |-> clamp[phi, -MAX_Y, MAX_Y]]
            ELSE Null
    IN  accept[winkelForward(lambda, phi)]

\* the loop of winkelInverse from pass `iter` on, and the final check
NewtonLoop[xT \in Int, lambda \in Int, phi \in Int, iter \in Nat] ==
    LET after[pass \in [exit : STRING, stepLam : Int, stepPhi : Int, lambda : Int, phi : Int]] ==
            IF pass.exit = "converged" THEN [lambda |-> pass.lambda, phi |-> pass.phi]
            ELSE IF pass.exit = "singular" THEN Null
            ELSE NewtonLoop[xT, pass.lambda, pass.phi, iter + 1]
    IN  IF iter < MaxNewtonIterations THEN after[NewtonPass[xT, lambda, phi]]
        ELSE NewtonFinal[xT, lambda, phi]

\* the initial guess without the clamp of lambda
InitialGuess_unclamped(xT) ==
    [lambda |-> Sgn(xT) * DivShift[2 * Abs(xT), COS_PHI1 + AUnit, 28],
     phi |-> clamp[2 * 0, -MAX_Y, MAX_Y]]

\* the initial guess of winkelInverse(xT, 0): phi = clamp(2 * yT) = 0 and
\* lambda = clamp(2 * xT / (COS_PHI1 + cos(phi)), -PI, PI)
InitialGuess(xT) ==
    [lambda |-> clamp[Sgn(xT) * DivShift[2 * Abs(xT), COS_PHI1 + AUnit, 28], -PI, PI],
     phi |-> clamp[2 * 0, -MAX_Y, MAX_Y]]

\* winkelInverse(xT, 0): the initial guess, then the loop
winkelInverse(xT) ==
    NewtonLoop[xT, InitialGuess(xT).lambda, InitialGuess(xT).phi, 0]

\* projX of pixel x of a row of `width` pixels: ((x + 0.5) / width * 2 - 1) * MAX_X
projXOf(width, x) ==
    LET scaled[k \in Int] ==
            Sgn(k) * ((MAX_X \div width) * Abs(k) + ((MAX_X % width) * Abs(k)) \div width)
    IN  scaled[2 * x + 1 - width]

\* |fwd.x - projX| + |fwd.y - projY| for projY = 0
reprojectionError(fwd, projX) == Abs(fwd.x - projX) + Abs(fwd.y - 0)

\* the body of the pixel loop of buildMapping: valid[i]
validOfError(found, err) ==
    IF ~found THEN 0
    ELSE IF err > ReprojectionTol THEN 0
    ELSE 1

validFlag(inv, projX) ==
    validOfError(inv # Null,
                 IF inv = Null THEN 0
                 ELSE reprojectionError(winkelForward(inv.lambda, inv.phi), projX))

MappingWidths == {8, 16, 33}
PixelCenters ==
    UNION {{projXOf(width, x) : x \in 0..(width - 1)} : width \in MappingWidths}

\* targets on the two ends of the equator and next to them, inside and outside
EdgeTargets ==
    {sign * (MAX_X + d) : sign \in {-1, 1},
                          d \in {-NewtonEps, -2, -1, 0, 1, 2, NewtonEps, FinalTol, 1000000}}

InverseInit ==
    /\ fnCall \in [pc : {"call"}, fn : {"winkelInverse", "buildMapping"},
                   xT : PixelCenters \cup EdgeTargets,
                   inv : {Null}, fwd : {Null}, valid : {Null}]
    /\ fnCall.fn = "buildMapping" =>
          \E width \in MappingWidths : \E x \in 0..(width - 1) :
              fnCall.xT = projXOf(width, x)
    /\ elevCall = Idle
    /\ pctCall = Idle
    /\ ico = Idle
    /\ winkel = Idle
    /\ terrain = Idle
    /\ ocean = Idle
    /\ cdfCall = Idle
    /\ pixels = Idle
    /\ simplex = Idle
    /\ task = Idle
    /\ page = Idle
    /\ slider = Idle
    /\ handshake = Idle

\* winkelInverse(xT, 0), and what winkelForward and the validity test of
\* buildMapping make of its result
CallWinkelInverse ==
    /\ fnCall.pc = "call"
    /\ fnCall.fn = "winkelInverse"
    /\ \E inv \in {winkelInverse(fnCall.xT)} :
          fnCall' = [fnCall EXCEPT
                       !.pc = "done",
                       !.inv = inv,
                       !.fwd = IF inv = Null THEN Null
                               ELSE winkelForward(inv.lambda, inv.phi),
                       !.valid = validFlag(inv, fnCall.xT)]
    /\ UNCHANGED <<elevCall, pctCall, ico, winkel, terrain, ocean, cdfCall, pixels, simplex, task, page, slider, handshake>>

\* one pixel of the row y = 0 of a mapping of height 1
BuildMappingPixel ==
    /\ fnCall.pc = "call"
    /\ fnCall.fn = "buildMapping"
    /\ \E inv \in {winkelInverse(fnCall.xT)} :
          fnCall' = [fnCall EXCEPT
                       !.pc = "done",
                       !.inv = inv,
                       !.fwd = IF inv = Null THEN Null
                               ELSE winkelForward(inv.lambda, inv.phi),
                       !.valid = validFlag(inv, fnCall.xT)]
    /\ UNCHANGED <<elevCall, pctCall, ico, winkel, terrain, ocean, cdfCall, pixels, simplex, task, page, slider, handshake>>

InverseNext == CallWinkelInverse \/ BuildMappingPixel

SpecInverse == InverseInit /\ [][InverseNext]_vars

\* the pixels of the rows are inside the silhouette, found, and valid
PixelsOfEquatorValid ==
    (fnCall.pc = "done" /\ fnCall.fn = "buildMapping") =>
        /\ fnCall.inv # Null
        /\ reprojectionError(fnCall.fwd, fnCall.xT) < FinalTol
        /\ fnCall.valid = 1

Transparent == <<0, 0, 0, 0>>

InverseExits == {"singular", "noConvergence", "pair"}
ReprojectionErrors == {0, ReprojectionTol, ReprojectionTol + 1}
InverseOutcomes ==
    {o \in [exit : InverseExits, err : ReprojectionErrors] :
        o.exit # "pair" => o.err = 0}

\* the loops of buildMapping over a grid of n pixels: valid[]
\* (a grid of fewer than 16 rows is computed without a yield)
buildMappingValid(outcomes) ==
    [i \in 1..Len(outcomes) |->
        validOfError(outcomes[i].exit = "pair", outcomes[i].err)]

\* Math.max(0, Math.min(255, Math.round(baseColor * shade * 255))), the
\* colour and the shade in thousandths
ColorByte(baseColor, shade) ==
    Max(0, Min(255, (2 * baseColor * shade * 255 + 1000000) \div 2000000))

BaseColors == {0, 1000}
Shades == {720, 1000}
PixelInputs == [r : BaseColors, g : {500}, b : {250}, shade : Shades]

\* renderWinkel without data.fill(0)
renderWinkelData_noFill(mapping, out, inputs) ==
    IF out.width # mapping.width \/ out.height # mapping.height
    THEN Threw("ImageData size mismatch")
    ELSE Returned([i \in 1..Len(out.data) |->
            IF i > Len(mapping.valid) \/ mapping.valid[i] = 0
            THEN out.data[i]
            ELSE <<ColorByte(inputs[i].r, inputs[i].shade),
                   ColorByte(inputs[i].g, inputs[i].shade),
                   ColorByte(inputs[i].b, inputs[i].shade), 255>>])

\* renderWinkel: the bytes of out.data after the call, or the exception
renderWinkelData(mapping, out, inputs) ==
    IF out.width # mapping.width \/ out.height # mapping.height
    THEN Threw("ImageData size mismatch")
    ELSE LET filled == [i \in 1..Len(out.data) |-> Transparent]
         IN  Returned([i \in 1..Len(out.data) |->
                 IF i > Len(mapping.valid) \/ mapping.valid[i] = 0
                 THEN filled[i]
                 ELSE <<ColorByte(inputs[i].r, inputs[i].shade),
                        ColorByte(inputs[i].g, inputs[i].shade),
                        ColorByte(inputs[i].b, inputs[i].shade), 255>>])

GridSizes == {<<2, 1>>, <<1, 2>>, <<3, 1>>}
StalePixel == <<12, 200, 255, 255>>
MaxRenders == 2

\* the ImageData handed to renderWinkel: of any of the sizes, its bytes
\* transparent (createImageData) or left by an earlier use
PixelsInit ==
    /\ \E size \in GridSizes : \E outSize \in GridSizes :
       \E data \in [1..(outSize[1] * outSize[2]) -> {Transparent, StalePixel}] :
          pixels = [pc |-> "start",
                    width |-> size[1], height |-> size[2],
                    outcomes |-> <<>>,
                    mapping |-> Null,
                    out |-> [width |-> outSize[1], height |-> outSize[2],
                             data |-> data],
                    before |-> data,
                    renders |-> 0,
                    outcome |-> Null]
    /\ elevCall = Idle
    /\ pctCall = Idle
    /\ ico = Idle
    /\ winkel = Idle
    /\ terrain = Idle
    /\ ocean = Idle
    /\ cdfCall = Idle
    /\ fnCall = Idle
    /\ simplex = Idle
    /\ task = Idle
    /\ page = Idle
    /\ slider = Idle
    /\ handshake = Idle

CallBuildMapping ==
    /\ pixels.pc = "start"
    /\ \E outcomes \in [1..(pixels.width * pixels.height) -> InverseOutcomes] :
          pixels' = [pixels EXCEPT
                       !.pc = "mapped",
                       !.outcomes = outcomes,
                       !.mapping = [width |-> pixels.width, height |-> pixels.height,
                                    valid |-> buildMappingValid(outcomes)],
                       !.outcome = Returned("mapping")]
    /\ UNCHANGED <<elevCall, pctCall, ico, winkel, terrain, ocean, cdfCall, fnCall, simplex, task, page, slider, handshake>>

CallRenderWinkel ==
    /\ pixels.pc \in {"mapped", "rendered"}
    /\ pixels.renders < MaxRenders
    /\ \E inputs \in [1..(pixels.width * pixels.height) -> PixelInputs] :
       \E result \in {renderWinkelData(pixels.mapping, pixels.out, inputs)} :
          pixels' = [pixels EXCEPT
                       !.pc = IF "threw" \in DOMAIN result THEN "threw" ELSE "rendered",
                       !.before = pixels.out.data,
                       !.out = IF "threw" \in DOMAIN result THEN pixels.out
                               ELSE [pixels.out EXCEPT !.data = result.returned],
                       !.renders = pixels.renders + 1,
                       !.outcome = result]
    /\ UNCHANGED <<elevCall, pctCall, ico, winkel, terrain, ocean, cdfCall, fnCall, simplex, task, page, slider, handshake>>

PixelsNext == CallBuildMapping \/ CallRenderWinkel

SpecPixels == PixelsInit /\ [][PixelsNext]_vars

(***************************************************************************)
(* C15: a pixel whose inverse projection fails (winkelInverse returns null *)
(* for a singular Jacobian or for non-convergence, or the re-projection    *)
(* error exceeds 2e-3) raises nothing: buildMapping returns with valid = 0 *)
(* for it, and after every renderWinkel call that pixel is <<0, 0, 0, 0>>, *)
(* while every pixel with valid = 1 has alpha 255.                         *)
(***************************************************************************)
PixelFails(o) == o.exit # "pair" \/ o.err > ReprojectionTol

C15_FailedPixelsAreBackground ==
    /\ pixels.pc \in {"mapped", "rendered", "threw"} =>
          /\ Len(pixels.mapping.valid) = pixels.width * pixels.height
          /\ \A i \in 1..Len(pixels.outcomes) :
                pixels.mapping.valid[i] = IF PixelFails(pixels.outcomes[i]) THEN 0 ELSE 1
    /\ pixels.pc = "rendered" =>
          \A i \in 1..Len(pixels.mapping.valid) :
             /\ pixels.mapping.valid[i] = 0 => pixels.out.data[i] = Transparent
             /\ pixels.mapping.valid[i] = 1 => pixels.out.data[i][4] = 255

\* a grid with a pixel of each kind of failure and a valid one, painted over
\* an image that held stale bytes at a failed pixel
C15_Witness ==
    /\ pixels.pc = "rendered"
    /\ Len(pixels.outcomes) = 3
    /\ pixels.outcomes[1].exit \in {"singular", "noConvergence"}
    /\ pixels.outcomes[2] = [exit |-> "pair", err |-> ReprojectionTol + 1]
    /\ pixels.outcomes[3] = [exit |-> "pair", err |-> ReprojectionTol]
    /\ pixels.before[1] = StalePixel
    /\ pixels.before[2] = StalePixel
    /\ pixels.mapping.valid = <<0, 0, 1>>

(***************************************************************************)
(* SimplexNoise3D.  The coordinates handed to noise() are multiples of     *)
(* 1/2, so that every length in noise() is a multiple of 1/6 and the       *)
(* arithmetic is exact: lengths are counted in sixths, the falloff t in    *)
(* 1/180, and the value returned in units of 32 / (6 * 180^4).             *)
(***************************************************************************)
grad3 ==
    << <<1, 1, 0>>, <<-1, 1, 0>>, <<1, -1, 0>>, <<-1, -1, 0>>,
       <<1, 0, 1>>, <<-1, 0, 1>>, <<1, 0, -1>>, <<-1, 0, -1>>,
       <<0, 1, 1>>, <<0, -1, 1>>, <<0, 1, -1>>, <<0, -1, -1>> >>

TableSize == 256

\* the array p and the running seed of the constructor
ShuffleStates == [p : [0..(TableSize - 1) -> 0..(TableSize - 1)], seed : Nat]

\* the array perm
PermTables == [0..(2 * TableSize - 1) -> 0..(TableSize - 1)]

\* one pass of the shuffle loop of the constructor, at index i
ShuffleStep[st \in ShuffleStates, i \in Nat] ==
    LET seed == Lcg[st.seed]
        n == (seed * (i + 1)) \div 233280
    IN  [p |-> [st.p EXCEPT ![i] = st.p[n], ![n] = st.p[i]],
         seed |-> seed]

\* the passes of the shuffle loop from index hi down to index lo, the upper
\* half of the range before the lower
Shuffle[st \in ShuffleStates, hi \in Nat, lo \in Nat] ==
    IF hi = lo THEN ShuffleStep[st, hi]
    ELSE Shuffle[Shuffle[st, hi, (hi + lo) \div 2 + 1], (hi + lo) \div 2, lo]

\* new SimplexNoise3D(seed): the table perm, perm[i] = p[i & 255]
SimplexNoise3D(seed) ==
    LET p == Shuffle[[p |-> [k \in 0..(TableSize - 1) |-> k], seed |-> seed],
                     TableSize - 1, 1].p
    IN  [perm |-> [k \in 0..(2 * TableSize - 1) |-> p[k % TableSize]]]

dot(g, x, y, z) == g[1] * x + g[2] * y + g[3] * z

\* the offsets <<i1, j1, k1, i2, j2, k2>> of the second and third corner
SimplexOrder(x0, y0, z0) ==
    IF x0 >= y0
    THEN IF y0 >= z0 THEN <<1, 0, 0, 1, 1, 0>>
         ELSE IF x0 >= z0 THEN <<1, 0, 0, 1, 0, 1>>
         ELSE <<0, 0, 1, 1, 0, 1>>
    ELSE IF y0 < z0 THEN <<0, 0, 1, 0, 1, 1>>
         ELSE IF x0 < z0 THEN <<0, 1, 0, 0, 1, 1>>
         ELSE <<0, 1, 0, 1, 1, 0>>

\* the contribution of one corner: t < 0 ? 0 : (t *= t) * t * dot(grad3[gi], x, y, z)
Corner[gi \in 0..11, x \in Int, y \in Int, z \in Int] ==
    LET t[q \in Nat] == IF 108 - 5 * q < 0 THEN 0
                        ELSE (108 - 5 * q) * (108 - 5 * q) * (108 - 5 * q) * (108 - 5 * q)
    IN  t[x * x + y * y + z * z] * dot(grad3[gi + 1], x, y, z)

\* the gradient index this.perm[a + this.perm[b + this.perm[c]]] % 12
GradIndex(perm, a, b, c) == perm[a + perm[b + perm[c]]] % 12

\* the body of noise() from the cell <<i, j, k>> on; x0, y0, z0 in sixths
NoiseInCell[perm \in PermTables, cell \in Seq(Int), d \in Seq(Int)] ==
    LET o == SimplexOrder(d[1], d[2], d[3])
        ii == cell[1] % 256
        jj == cell[2] % 256
        kk == cell[3] % 256
    IN  Corner[GradIndex(perm, ii, jj, kk), d[1], d[2], d[3]]
        + Corner[GradIndex(perm, ii + o[1], jj + o[2], kk + o[3]),
                 d[1] - 6 * o[1] + 1, d[2] - 6 * o[2] + 1, d[3] - 6 * o[3] + 1]
        + Corner[GradIndex(perm, ii + o[4], jj + o[5], kk + o[6]),
                 d[1] - 6 * o[4] + 2, d[2] - 6 * o[5] + 2, d[3] - 6 * o[6] + 2]
        + Corner[GradIndex(perm, ii + 1, jj + 1, kk + 1),
                 d[1] - 6 + 3, d[2] - 6 + 3, d[3] - 6 + 3]

\* the skewed cell of the point: floor(xin + s), s = (xin + yin + zin) / 3
SimplexCell[xin \in Int, yin \in Int, zin \in Int] ==
    << (3 * xin + (xin + yin + zin)) \div 6,
       (3 * yin + (xin + yin + zin)) \div 6,
       (3 * zin + (xin + yin + zin)) \div 6 >>

\* x0 = xin - (i - t), t = (i + j + k) / 6
SimplexOffset[xin \in Int, yin \in Int, zin \in Int, cell \in Seq(Int)] ==
    << 3 * xin - (6 * cell[1] - (cell[1] + cell[2] + cell[3])),
       3 * yin - (6 * cell[2] - (cell[1] + cell[2] + cell[3])),
       3 * zin - (6 * cell[3] - (cell[1] + cell[2] + cell[3])) >>

\* noise() that keeps the last gradient index in the table
noise_writingPerm(self, xin, yin, zin) ==
    [self |-> [self EXCEPT !.perm[0] = GradIndex(self.perm, 0, 0, 0)],
     value |-> NoiseInCell[self.perm, SimplexCell[xin, yin, zin],
                           SimplexOffset[xin, yin, zin, SimplexCell[xin, yin, zin]]]]

\* noise(xin, yin, zin) on the instance self: the instance after the call
\* (the method assigns to no field) and the value returned
noise(self, xin, yin, zin) ==
    [self |-> self,
     value |-> NoiseInCell[self.perm, SimplexCell[xin, yin, zin],
                           SimplexOffset[xin, yin, zin, SimplexCell[xin, yin, zin]]]]

\* coordinates, in halves, at which the doubles of the source take the floors
\* and order x0, y0, z0 as the exact values do
NoiseCoordinates == {-1, 0, 1, 3}
MaxNoiseCalls == 3

\* two instances constructed with the same seed
SimplexInit ==
    /\ \E seed \in 0..MaxSeed :
          simplex = [pc |-> "constructed",
                     seed |-> seed,
                     a |-> SimplexNoise3D(seed),
                     b |-> SimplexNoise3D(seed),
                     calls |-> 0,
                     last |-> Null]
    /\ elevCall = Idle
    /\ pctCall = Idle
    /\ ico = Idle
    /\ winkel = Idle
    /\ terrain = Idle
    /\ ocean = Idle
    /\ cdfCall = Idle
    /\ fnCall = Idle
    /\ pixels = Idle
    /\ task = Idle
    /\ page = Idle
    /\ slider = Idle
    /\ handshake = Idle

NoiseOnFirst ==
    /\ simplex.pc = "constructed"
    /\ simplex.calls < MaxNoiseCalls
    /\ \E xin \in NoiseCoordinates : \E yin \in NoiseCoordinates : \E zin \in NoiseCoordinates :
       \E r \in {noise(simplex.a, xin, yin, zin)} :
          simplex' = [simplex EXCEPT
                        !.a = r.self,
                        !.calls = @ + 1,
                        !.last = [on |-> "a", input |-> <<xin, yin, zin>>,
                                  value |-> r.value]]
    /\ UNCHANGED <<elevCall, pctCall, ico, winkel, terrain, ocean, cdfCall, fnCall, pixels, task, page, slider, handshake>>

NoiseOnSecond ==
    /\ simplex.pc = "constructed"
    /\ simplex.calls < MaxNoiseCalls
    /\ \E xin \in NoiseCoordinates : \E yin \in NoiseCoordinates : \E zin \in NoiseCoordinates :
       \E r \in {noise(simplex.b, xin, yin, zin)} :
          simplex' = [simplex EXCEPT
                        !.b = r.self,
                        !.calls = @ + 1,
                        !.last = [on |-> "b", input |-> <<xin, yin, zin>>,
                                  value |-> r.value]]
    /\ UNCHANGED <<elevCall, pctCall, ico, winkel, terrain, ocean, cdfCall, fnCall, pixels, task, page, slider, handshake>>

SimplexNext == NoiseOnFirst \/ NoiseOnSecond

SpecSimplex == SimplexInit /\ [][SimplexNext]_vars

\* the table is a permutation of 0..255, twice
PermIsPermutation ==
    simplex.pc = "constructed" =>
        /\ \A v \in 0..(TableSize - 1) : \E k \in 0..(TableSize - 1) : simplex.a.perm[k] = v
        /\ \A k \in 0..(TableSize - 1) : simplex.a.perm[k + TableSize] = simplex.a.perm[k]

(***************************************************************************)
(* C16: two instances constructed with the same seed hold, after any       *)
(* sequence of noise calls on either of them, the table the constructor    *)
(* built, and a call returns what the other instance returns for the same  *)
(* input at that moment, which is what a fresh instance of the seed        *)
(* returns.                                                                *)
(***************************************************************************)
C16_NoiseIsDeterministic ==
    simplex.pc = "constructed" =>
        /\ simplex.a.perm = SimplexNoise3D(simplex.seed).perm
        /\ simplex.b.perm = SimplexNoise3D(simplex.seed).perm
        /\ simplex.last # Null =>
              /\ simplex.last.value
                    = noise(simplex.a, simplex.last.input[1], simplex.last.input[2],
                            simplex.last.input[3]).value
              /\ simplex.last.value
                    = noise(simplex.b, simplex.last.input[1], simplex.last.input[2],
                            simplex.last.input[3]).value

\* the third call, on the second instance after calls on the first, with a
\* value that is not zero
C16_Witness ==
    /\ simplex.pc = "constructed"
    /\ simplex.calls = 3
    /\ simplex.last # Null
    /\ simplex.last.on = "b"
    /\ simplex.last.value # 0
    /\ simplex.last.input = <<-1, 0, 3>>

(***************************************************************************)
(* The long-running operations and the host's frame scheduler.  A slice is *)
(* what an operation runs without returning to the host: from its call, or *)
(* from the frame callback that resumes it, to its next await or its end.  *)
(***************************************************************************)
SliceRows == 16
MaxHeight == 40
Operations == {"buildMapping", "renderWinkel", "renderFlatMapCanvas"}

\* the slice of buildMapping that starts at row `from`: the rows it runs and
\* whether it ends at the await of line 203
buildMappingSlice(from, height) ==
    [rows |-> IF NextYield(from, height) < height
              THEN NextYield(from, height) - from + 1
              ELSE height - from,
     awaits |-> NextYield(from, height) < height]

\* renderWinkel and the loops of renderFlatMapCanvas: every row, and no await
renderSlice(height) == [rows |-> height, awaits |-> FALSE]

TaskInit ==
    /\ task \in [pc : {"call"}, op : Operations, height : 1..MaxHeight,
                 y : {0}, sliceRows : {0}, requested : {0}, fired : {0}]
    /\ elevCall = Idle
    /\ pctCall = Idle
    /\ ico = Idle
    /\ winkel = Idle
    /\ terrain = Idle
    /\ ocean = Idle
    /\ cdfCall = Idle
    /\ fnCall = Idle
    /\ pixels = Idle
    /\ simplex = Idle
    /\ page = Idle
    /\ slider = Idle
    /\ handshake = Idle

\* the state of the operation after a slice that started at row task.y
AfterSlice(slice) ==
    [task EXCEPT !.pc = IF slice.awaits THEN "awaiting" ELSE "done",
                 !.y = @ + slice.rows,
                 !.sliceRows = slice.rows,
                 !.requested = IF slice.awaits THEN @ + 1 ELSE @]

StartBuildMapping ==
    /\ task.pc = "call"
    /\ task.op = "buildMapping"
    /\ task' = AfterSlice(buildMappingSlice(task.y, task.height))
    /\ UNCHANGED <<elevCall, pctCall, ico, winkel, terrain, ocean, cdfCall, fnCall, pixels, simplex, page, slider, handshake>>

\* the frame callback requested at the await: it resolves the promise, and
\* buildMapping goes on with its next slice
FrameCallback ==
    /\ task.pc = "awaiting"
    /\ task.fired < task.requested
    /\ task' = [AfterSlice(buildMappingSlice(task.y, task.height))
                   EXCEPT !.fired = task.fired + 1]
    /\ UNCHANGED <<elevCall, pctCall, ico, winkel, terrain, ocean, cdfCall, fnCall, pixels, simplex, page, slider, handshake>>

CallRenderWinkelRows ==
    /\ task.pc = "call"
    /\ task.op = "renderWinkel"
    /\ task' = AfterSlice(renderSlice(task.height))
    /\ UNCHANGED <<elevCall, pctCall, ico, winkel, terrain, ocean, cdfCall, fnCall, pixels, simplex, page, slider, handshake>>

CallRenderFlatMapCanvas ==
    /\ task.pc = "call"
    /\ task.op = "renderFlatMapCanvas"
    /\ task' = AfterSlice(renderSlice(task.height))
    /\ UNCHANGED <<elevCall, pctCall, ico, winkel, terrain, ocean, cdfCall, fnCall, pixels, simplex, page, slider, handshake>>

TaskNext ==
    StartBuildMapping \/ FrameCallback \/ CallRenderWinkelRows \/ CallRenderFlatMapCanvas

SpecTask == TaskInit /\ [][TaskNext]_vars

\* the host fires every frame callback that was requested
SpecTaskFair == SpecTask /\ WF_vars(TaskNext)

\* every operation completes once its frame callbacks have fired, with every
\* row done
TaskCompletes == <>(task.pc = "done" /\ task.y = task.height /\ task.fired = task.requested)

\* buildMapping alone runs slices of at most 16 rows
BuildMappingSlicesBounded ==
    task.op = "buildMapping" => task.sliceRows <= SliceRows

(***************************************************************************)
(* C17: buildMapping, renderWinkel and renderFlatMapCanvas run no slice of *)
(* more than a bounded number of rows (the 16 of buildMapping) before they *)
(* hand control back to the frame scheduler.                               *)
(***************************************************************************)
C17_YieldsBetweenBoundedSlices ==
    task.pc \in {"awaiting", "done"} => task.sliceRows <= SliceRows

(***************************************************************************)
(* buildTerrainMesh with its arrays: the index list of the unit icosphere  *)
(* and, for every vertex, the stored elevFeet and the elevation that sets  *)
(* its radius.                                                             *)
(***************************************************************************)
\* the loop over the faces lo..hi of one pass, on the closure's verts and
\* midCache and the pass's newFaces
RECURSIVE subdivideFaces(_, _, _, _)
subdivideFaces(mesh, faces, lo, hi) ==
    IF lo = hi
    THEN CHOOSE after \in
             {[verts |-> m.verts, midCache |-> m.midCache,
               newFaces |-> mesh.newFaces \o FourFaces(faces[lo], m)] :
                  m \in {FaceMids(mesh, faces[lo])}} : TRUE
    ELSE CHOOSE after \in
             {subdivideFaces(half, faces, (lo + hi) \div 2 + 1, hi) :
                  half \in {subdivideFaces(mesh, faces, lo, (lo + hi) \div 2)}} : TRUE

\* the passes of createIcosphere: faces = newFaces after each
RECURSIVE subdividePasses(_, _)
subdividePasses(mesh, passes) ==
    IF passes = 0 THEN mesh
    ELSE CHOOSE after \in
             {subdividePasses([verts |-> pass.verts, midCache |-> pass.midCache,
                               faces |-> pass.newFaces], passes - 1) :
                  pass \in {subdivideFaces([verts |-> mesh.verts,
                                            midCache |-> mesh.midCache,
                                            newFaces |-> <<>>],
                                           mesh.faces, 1, Len(mesh.faces))}} : TRUE

\* createIcosphere(subdivisions, 1, 1): the vertices and the index list
createIcosphere(subdivisions) ==
    LET arrays(mesh) == [verts |-> mesh.verts, indices |-> FlatIndices(mesh.faces)]
    IN  CHOOSE unitMesh \in
            {arrays(mesh) :
                 mesh \in {subdividePasses([verts |-> InitialVerts, midCache |-> <<>>,
                                            faces |-> InitialFaces], subdivisions)}} : TRUE

\* elevFeet < seaLevelFeet ? seaLevelFeet : elevFeet, which sets the radius
visualElevFeet(elevFeet, seaLevelFeet) ==
    IF elevFeet < seaLevelFeet THEN seaLevelFeet ELSE elevFeet

\* the arrays that store the elevation of the radius in the vertex
meshArrays_storesVisual(unitMesh, data) ==
    [vertexCount |-> Len(unitMesh.verts),
     indices |-> unitMesh.indices,
     elevFeet |-> [i \in 1..Len(unitMesh.verts) |->
                      visualElevFeet(data.vertexElevFeet[i], data.seaLevelFeet)],
     radiusElevFeet |-> [i \in 1..Len(unitMesh.verts) |->
                      visualElevFeet(data.vertexElevFeet[i], data.seaLevelFeet)],
     seaLevelFeet |-> data.seaLevelFeet,
     stats |-> data.stats]

\* the arrays buildTerrainMesh returns: vertexCount, indices,
\* outVertices[i * 4 + 3], and the elevation behind the radius of
\* outVertices[i * 4 + 0..2], at the precision of the stored elevFeet
meshArrays(unitMesh, data) ==
    [vertexCount |-> Len(unitMesh.verts),
     indices |-> unitMesh.indices,
     elevFeet |-> [i \in 1..Len(unitMesh.verts) |-> data.vertexElevFeet[i]],
     radiusElevFeet |-> [i \in 1..Len(unitMesh.verts) |->
                      visualElevFeet(data.vertexElevFeet[i], data.seaLevelFeet)],
     seaLevelFeet |-> data.seaLevelFeet,
     stats |-> data.stats]

\* buildTerrainMesh, with the arrays
terrainMeshArrays(seed, oceanSAFraction, subdivisions) ==
    CHOOSE arrays \in
        {meshArrays(unitMesh, data) :
             unitMesh \in {createIcosphere(subdivisions)},
             data \in {buildTerrainMesh(seed, oceanSAFraction, subdivisions)}} : TRUE

TopologyFractions ==
    {EPS, 29 * (PUnit \div 100), 71 * (PUnit \div 100), PUnit - EPS}

\* a caller that builds the mesh of one seed for one ocean fraction and then
\* for another
TopologyInit ==
    /\ fnCall \in [pc : {"call"}, fn : {"buildTerrainMesh"},
                   seed : 0..MaxSeed, subdivisions : 0..MaxTerrainSubdivisions,
                   fractions : TopologyFractions \X TopologyFractions,
                   results : {<<>>}]
    /\ elevCall = Idle
    /\ pctCall = Idle
    /\ ico = Idle
    /\ winkel = Idle
    /\ terrain = Idle
    /\ ocean = Idle
    /\ cdfCall = Idle
    /\ pixels = Idle
    /\ simplex = Idle
    /\ task = Idle
    /\ page = Idle
    /\ slider = Idle
    /\ handshake = Idle

BuildFirstMesh ==
    /\ fnCall.pc = "call"
    /\ Len(fnCall.results) = 0
    /\ fnCall' = [fnCall EXCEPT
                    !.results = <<terrainMeshArrays(fnCall.seed, fnCall.fractions[1],
                                                    fnCall.subdivisions)>>]
    /\ UNCHANGED <<elevCall, pctCall, ico, winkel, terrain, ocean, cdfCall, pixels, simplex, task, page, slider, handshake>>

BuildSecondMesh ==
    /\ fnCall.pc = "call"
    /\ Len(fnCall.results) = 1
    /\ fnCall' = [fnCall EXCEPT
                    !.pc = "done",
                    !.results = Append(@, terrainMeshArrays(fnCall.seed, fnCall.fractions[2],
                                                            fnCall.subdivisions))]
    /\ UNCHANGED <<elevCall, pctCall, ico, winkel, terrain, ocean, cdfCall, pixels, simplex, task, page, slider, handshake>>

TopologyNext == BuildFirstMesh \/ BuildSecondMesh

SpecTopology == TopologyInit /\ [][TopologyNext]_vars

(***************************************************************************)
(* C18: two calls of buildTerrainMesh with the same seed and subdivisions  *)
(* and any two ocean fractions return the same vertex count, the same      *)
(* index list in the same order, and the same stored elevFeet for every    *)
(* vertex.                                                                 *)
(***************************************************************************)
C18_OceanFractionKeepsTopology ==
    (fnCall.pc = "done" /\ fnCall.fn = "buildTerrainMesh") =>
        /\ fnCall.results[1].vertexCount = fnCall.results[2].vertexCount
        /\ fnCall.results[1].vertexCount = VertexCount(fnCall.subdivisions)
        /\ fnCall.results[1].indices = fnCall.results[2].indices
        /\ fnCall.results[1].elevFeet = fnCall.results[2].elevFeet

\* two fractions that give another sea level, other radii and other ocean
\* statistics, on a subdivided mesh
C18_Witness ==
    /\ fnCall.pc = "done"
    /\ fnCall.fn = "buildTerrainMesh"
    /\ fnCall.subdivisions = 1
    /\ fnCall.fractions[1] # fnCall.fractions[2]
    /\ fnCall.results[1].seaLevelFeet # fnCall.results[2].seaLevelFeet
    /\ fnCall.results[1].radiusElevFeet # fnCall.results[2].radiusElevFeet
    /\ fnCall.results[1].stats # fnCall.results[2].stats
    /\ Len(fnCall.results[1].indices) = 240

(***************************************************************************)
(* computeVertexNormals.  The coordinates of a mesh are whole multiples of *)
(* one unit 2^scale, so that the differences, the products and the sums of *)
(* the cross product are exact, in units of 2^(2 * scale).  A quotient     *)
(* v / len is kept as the vector v and the square of len.                  *)
(***************************************************************************)
Cross(u, v) ==
    << u[2] * v[3] - u[3] * v[2],
       u[3] * v[1] - u[1] * v[3],
       u[1] * v[2] - u[2] * v[1] >>

Minus(u, v) == << u[1] - v[1], u[2] - v[2], u[3] - v[3] >>

Dot(u, v) == u[1] * v[1] + u[2] * v[2] + u[3] * v[3]

\* the cross product with the edges exchanged: (c - a) x (b - a)
faceNormal_leftHanded(a, b, c) == Cross(Minus(c, a), Minus(b, a))

\* (nx, ny, nz) of one face: (b - a) x (c - a)
faceNormal(a, b, c) == Cross(Minus(b, a), Minus(c, a))

\* a number m * 2^e stored in a Float32Array is infinite from 2^128 on
Float32IsInfinite(m, e) == m # 0 /\ Log2Floor[Abs(m)] + e >= 128

\* (1e-12 * 2^46)^2 = 4951.76: len < 1e-12 for a length of sqrt(len2) units
\* of 2^-46; a length of whole units of 1 or more is below 1e-12 when it is 0
MinLengthSquared == 4952

LengthBelowMinimum(len2, e) == IF e < 0 THEN len2 < MinLengthSquared ELSE len2 < 1

\* the accumulation loop: normals[i] after every face has been added to its
\* three vertices (a vertex twice in a face is added to twice)
Accumulated[vertices \in Seq(Seq(Int)), faces \in Seq(Seq(Nat)), i \in Nat, k \in Nat] ==
    IF k = 0 THEN <<0, 0, 0>>
    ELSE LET n == faceNormal(vertices[faces[k][1] + 1], vertices[faces[k][2] + 1],
                             vertices[faces[k][3] + 1])
             times == Cardinality({j \in 1..3 : faces[k][j] = i})
             before == Accumulated[vertices, faces, i, k - 1]
         IN  << before[1] + times * n[1], before[2] + times * n[2],
                before[3] + times * n[3] >>

\* the normalization loop for one vertex: (nx, ny, nz) / len, or the position
\* over its length (over 1 when that length is 0)
NormalOfVertex[sum \in Seq(Int), position \in Seq(Int), scale \in Int] ==
    IF \/ \E j \in 1..3 : Float32IsInfinite(sum[j], 2 * scale)
       \/ LengthBelowMinimum(Dot(sum, sum), 2 * scale)
    THEN [v |-> position,
          len2 |-> IF Dot(position, position) = 0 THEN 1 ELSE Dot(position, position)]
    ELSE [v |-> sum, len2 |-> Dot(sum, sum)]

\* computeVertexNormals(vertices, indices), the faces being the triples of
\* indices
computeVertexNormals(vertices, faces, scale) ==
    [i \in 1..Len(vertices) |->
        NormalOfVertex[Accumulated[vertices, faces, i - 1, Len(faces)],
                       vertices[i], scale]]

NormalPoints ==
    { <<0, 0, 0>>, <<1, 0, 0>>, <<0, 1, 0>>, <<9, 0, 0>>, <<0, 9, 1>>,
      <<-8, 8, 3>>, <<2, 2, 2>>, <<0, 0, -9>> }

\* the exponent of the unit of the coordinates: 2^-23, 1, 2^64
NormalScales == {-23, 0, 64}

TriangleIndices ==
    { <<0, 1, 2>>, <<1, 2, 0>>, <<2, 0, 1>>, <<0, 2, 1>>, <<2, 1, 0>>, <<1, 0, 2>> }

\* a mesh of three vertices and one triangle
NormalsInit ==
    /\ fnCall \in [pc : {"call"}, fn : {"computeVertexNormals"},
                   vertices : [1..3 -> NormalPoints],
                   scale : NormalScales,
                   faces : {<<t>> : t \in TriangleIndices},
                   normals : {Null}]
    /\ elevCall = Idle
    /\ pctCall = Idle
    /\ ico = Idle
    /\ winkel = Idle
    /\ terrain = Idle
    /\ ocean = Idle
    /\ cdfCall = Idle
    /\ pixels = Idle
    /\ simplex = Idle
    /\ task = Idle
    /\ page = Idle
    /\ slider = Idle
    /\ handshake = Idle

CallComputeVertexNormals ==
    /\ fnCall.pc = "call"
    /\ fnCall.fn = "computeVertexNormals"
    /\ fnCall' = [fnCall EXCEPT
                    !.pc = "done",
                    !.normals = computeVertexNormals(fnCall.vertices, fnCall.faces,
                                                     fnCall.scale)]
    /\ UNCHANGED <<elevCall, pctCall, ico, winkel, terrain, ocean, cdfCall, pixels, simplex, task, page, slider, handshake>>

NormalsNext == CallComputeVertexNormals

SpecNormals == NormalsInit /\ [][NormalsNext]_vars

(***************************************************************************)
(* C19: for a mesh of one triangle (a, b, c), each of the three vertices   *)
(* gets the unit vector along (b - a) x (c - a); when that vector is       *)
(* shorter than 1e-12 or not finite as a Float32, the vertex gets its own  *)
(* position, normalized.                                                   *)
(***************************************************************************)
TriangleCross ==
    Cross(Minus(fnCall.vertices[fnCall.faces[1][2] + 1],
                fnCall.vertices[fnCall.faces[1][1] + 1]),
          Minus(fnCall.vertices[fnCall.faces[1][3] + 1],
                fnCall.vertices[fnCall.faces[1][1] + 1]))

TriangleCrossUsable ==
    /\ \A j \in 1..3 : ~Float32IsInfinite(TriangleCross[j], 2 * fnCall.scale)
    /\ ~LengthBelowMinimum(Dot(TriangleCross, TriangleCross), 2 * fnCall.scale)

C19_NormalsOfOneTriangle ==
    (fnCall.pc = "done" /\ fnCall.fn = "computeVertexNormals") =>
        \A i \in 1..3 :
            IF TriangleCrossUsable
            THEN /\ fnCall.normals[i].v = TriangleCross
                 /\ fnCall.normals[i].len2 = Dot(TriangleCross, TriangleCross)
            ELSE /\ fnCall.normals[i].v = fnCall.vertices[i]
                 /\ Dot(fnCall.vertices[i], fnCall.vertices[i]) > 0 =>
                       fnCall.normals[i].len2
                           = Dot(fnCall.vertices[i], fnCall.vertices[i])

\* a small triangle whose cross product is not zero and shorter than 1e-12:
\* the three vertices get their positions
C19_Witness ==
    /\ fnCall.pc = "done"
    /\ fnCall.fn = "computeVertexNormals"
    /\ fnCall.scale = -23
    /\ fnCall.vertices = << <<1, 0, 0>>, <<0, 1, 0>>, <<0, 9, 1>> >>
    /\ fnCall.faces = << <<0, 1, 2>> >>
    /\ TriangleCross = <<1, 1, -8>>
    /\ ~TriangleCrossUsable
    /\ fnCall.normals[3] = [v |-> <<0, 9, 1>>, len2 |-> 82]

(***************************************************************************)
(* colorFromElevationFeet.  Feet are on the FUnit grid, the gradient       *)
(* parameter t on the ZUnit grid, a colour channel in thousandths.         *)
(***************************************************************************)
TERRAIN_COLOR_CONFIG ==
    [deepOcean |-> <<50, 150, 400>>,
     midOcean |-> <<100, 300, 700>>,
     shallowOcean |-> <<200, 500, 1000>>,
     lowLand |-> <<200, 360, 200>>,
     highLand |-> <<300, 200, 100>>,
     rocky |-> <<400, 400, 400>>,
     snow |-> <<1000, 1000, 1000>>,
     deepToMidStartOffsetFeet |-> -25000 * FUnit,
     deepToMidEndOffsetFeet |-> -15000 * FUnit,
     midToShallowStartOffsetFeet |-> -15000 * FUnit,
     midToShallowEndOffsetFeet |-> -6000 * FUnit,
     lowToHighEndOffsetFeet |-> 12000 * FUnit,
     highToRockyEndOffsetFeet |-> 17000 * FUnit,
     rockyToSnowStartOffsetFeet |-> 18000 * FUnit,
     rockyToSnowEndOffsetFeet |-> 25000 * FUnit]

\* t * t * (3 - 2 * t) for t = clamp((x - edge0) / (edge1 - edge0), 0, 1)
smoothstep(edge0, edge1, x) ==
    LET curve[t \in Nat] == FxMul[FxMul[t, t], 3 * ZUnit - 2 * t]
    IN  curve[clamp[FxDiv[x - edge0, edge1 - edge0], 0, ZUnit]]

\* a + (b - a) * t, channel by channel
mix(a, b, t) ==
    [k \in 1..3 |-> a[k] + Sgn(b[k] - a[k]) * ((Abs(b[k] - a[k]) * t) \div ZUnit)]

\* colorFromElevationFeet with sea level itself in the shallow-ocean band
colorFromElevationFeet_seaInclusive(elevFeet, seaLevelFeet, cfg) ==
    IF elevFeet < seaLevelFeet + cfg.deepToMidEndOffsetFeet
    THEN mix(cfg.deepOcean, cfg.midOcean,
             smoothstep(seaLevelFeet + cfg.deepToMidStartOffsetFeet,
                        seaLevelFeet + cfg.deepToMidEndOffsetFeet, elevFeet))
    ELSE IF elevFeet < seaLevelFeet + cfg.midToShallowEndOffsetFeet
    THEN mix(cfg.midOcean, cfg.shallowOcean,
             smoothstep(seaLevelFeet + cfg.midToShallowStartOffsetFeet,
                        seaLevelFeet + cfg.midToShallowEndOffsetFeet, elevFeet))
    ELSE IF elevFeet <= seaLevelFeet
    THEN cfg.shallowOcean
    ELSE IF elevFeet < seaLevelFeet + cfg.lowToHighEndOffsetFeet
    THEN mix(cfg.lowLand, cfg.highLand,
             smoothstep(seaLevelFeet, seaLevelFeet + cfg.lowToHighEndOffsetFeet, elevFeet))
    ELSE IF elevFeet < seaLevelFeet + cfg.highToRockyEndOffsetFeet
    THEN mix(cfg.highLand, cfg.rocky,
             smoothstep(seaLevelFeet + cfg.lowToHighEndOffsetFeet,
                        seaLevelFeet + cfg.highToRockyEndOffsetFeet, elevFeet))
    ELSE mix(cfg.rocky, cfg.snow,
             smoothstep(seaLevelFeet + cfg.rockyToSnowStartOffsetFeet,
                        seaLevelFeet + cfg.rockyToSnowEndOffsetFeet, elevFeet))

colorFromElevationFeet(elevFeet, seaLevelFeet, cfg) ==
    IF elevFeet < seaLevelFeet + cfg.deepToMidEndOffsetFeet
    THEN mix(cfg.deepOcean, cfg.midOcean,
             smoothstep(seaLevelFeet + cfg.deepToMidStartOffsetFeet,
                        seaLevelFeet + cfg.deepToMidEndOffsetFeet, elevFeet))
    ELSE IF elevFeet < seaLevelFeet + cfg.midToShallowEndOffsetFeet
    THEN mix(cfg.midOcean, cfg.shallowOcean,
             smoothstep(seaLevelFeet + cfg.midToShallowStartOffsetFeet,
                        seaLevelFeet + cfg.midToShallowEndOffsetFeet, elevFeet))
    ELSE IF elevFeet < seaLevelFeet
    THEN cfg.shallowOcean
    ELSE IF elevFeet < seaLevelFeet + cfg.lowToHighEndOffsetFeet
    THEN mix(cfg.lowLand, cfg.highLand,
             smoothstep(seaLevelFeet, seaLevelFeet + cfg.lowToHighEndOffsetFeet, elevFeet))
    ELSE IF elevFeet < seaLevelFeet + cfg.highToRockyEndOffsetFeet
    THEN mix(cfg.highLand, cfg.rocky,
             smoothstep(seaLevelFeet + cfg.lowToHighEndOffsetFeet,
                        seaLevelFeet + cfg.highToRockyEndOffsetFeet, elevFeet))
    ELSE mix(cfg.rocky, cfg.snow,
             smoothstep(seaLevelFeet + cfg.rockyToSnowStartOffsetFeet,
                        seaLevelFeet + cfg.rockyToSnowEndOffsetFeet, elevFeet))

\* sea levels: the least and the greatest elevation, the levels of the ocean
\* fractions 29% and 71%, and one between two whole feet
ColorSeaLevels ==
    {LOWEST_ELEVATION_LIMIT * FUnit, HIGHEST_ELEVATION_LIMIT * FUnit,
     7000 * FUnit + FUnit \div 2}
    \cup {percentileToElevationFeet(f, STD_DEVS).elevFeet : f \in OceanFractions}

\* elevations relative to sea level: the band edges, a step of the grid and
\* a foot to either side of them, and points inside the bands
ColorOffsets ==
    LET edges == {-25000, -15000, -6000, 0, 12000, 17000, 18000, 25000}
    IN  UNION {{e * FUnit - FUnit, e * FUnit - 1, e * FUnit, e * FUnit + 1, e * FUnit + FUnit} :
                   e \in edges}
        \cup {-30000 * FUnit, -20000 * FUnit, -10000 * FUnit, -3000 * FUnit,
              6000 * FUnit, 14500 * FUnit, 21000 * FUnit, 30000 * FUnit}

ColorInit ==
    /\ \E seaLevelFeet \in ColorSeaLevels : \E offset \in ColorOffsets :
          fnCall = [pc |-> "call", fn |-> "colorFromElevationFeet",
                    elevFeet |-> seaLevelFeet + offset,
                    seaLevelFeet |-> seaLevelFeet,
                    color |-> Null]
    /\ elevCall = Idle
    /\ pctCall = Idle
    /\ ico = Idle
    /\ winkel = Idle
    /\ terrain = Idle
    /\ ocean = Idle
    /\ cdfCall = Idle
    /\ pixels = Idle
    /\ simplex = Idle
    /\ task = Idle
    /\ page = Idle
    /\ slider = Idle
    /\ handshake = Idle

CallColorFromElevationFeet ==
    /\ fnCall.pc = "call"
    /\ fnCall.fn = "colorFromElevationFeet"
    /\ fnCall' = [fnCall EXCEPT
                    !.pc = "done",
                    !.color = colorFromElevationFeet(fnCall.elevFeet, fnCall.seaLevelFeet,
                                                     TERRAIN_COLOR_CONFIG)]
    /\ UNCHANGED <<elevCall, pctCall, ico, winkel, terrain, ocean, cdfCall, pixels, simplex, task, page, slider, handshake>>

ColorNext == CallColorFromElevationFeet

SpecColor == ColorInit /\ [][ColorNext]_vars

\* every channel of every colour returned is between 0 and 1
ColorInRange ==
    (fnCall.pc = "done" /\ fnCall.fn = "colorFromElevationFeet") =>
        \A k \in 1..3 : fnCall.color[k] >= 0 /\ fnCall.color[k] <= 1000

(***************************************************************************)
(* C20: for every elevation e with                                         *)
(* seaLevel + midToShallowEndOffsetFeet <= e < seaLevel the colour is      *)
(* shallowOcean exactly, and for e = seaLevel it is lowLand exactly.       *)
(***************************************************************************)
C20_BandsAtSeaLevel ==
    (fnCall.pc = "done" /\ fnCall.fn = "colorFromElevationFeet") =>
        /\ ( /\ fnCall.seaLevelFeet + TERRAIN_COLOR_CONFIG.midToShallowEndOffsetFeet
                    <= fnCall.elevFeet
             /\ fnCall.elevFeet < fnCall.seaLevelFeet )
              => fnCall.color = TERRAIN_COLOR_CONFIG.shallowOcean
        /\ fnCall.elevFeet = fnCall.seaLevelFeet
              => fnCall.color = TERRAIN_COLOR_CONFIG.lowLand

\* the call for one foot below sea level
C20_Witness ==
    /\ fnCall.pc = "done"
    /\ fnCall.fn = "colorFromElevationFeet"
    /\ fnCall.elevFeet = fnCall.seaLevelFeet - FUnit
    /\ fnCall.color = <<200, 500, 1000>>

(***************************************************************************)
(* winkelInverse pass by pass: the initial guess, each pass of the Newton  *)
(* loop and the final check are one step each, so that every iterate is a  *)
(* state.  The targets are the pixel centres and the ends of the equator   *)
(* row, and targets far outside the map, for which every step is limited   *)
(* by the trust region and the loop runs out of passes.                    *)
(***************************************************************************)
FarTargets == {sign * (MAX_X + k * (AUnit \div 4)) : sign \in {-1, 1}, k \in 1..4}

NewtonTargets == PixelCenters \cup EdgeTargets \cup FarTargets

NewtonInit ==
    /\ fnCall \in [pc : {"call"}, fn : {"winkelInverse.loop"}, xT : NewtonTargets,
                   lambda : {0}, phi : {0}, iter : {0},
                   stepLam : {0}, stepPhi : {0}, result : {Null}]
    /\ elevCall = Idle
    /\ pctCall = Idle
    /\ ico = Idle
    /\ winkel = Idle
    /\ terrain = Idle
    /\ ocean = Idle
    /\ cdfCall = Idle
    /\ pixels = Idle
    /\ simplex = Idle
    /\ task = Idle
    /\ page = Idle
    /\ slider = Idle
    /\ handshake = Idle

\* lines 113-116: the initial guess
TakeInitialGuess ==
    /\ fnCall.pc = "call"
    /\ fnCall.fn = "winkelInverse.loop"
    /\ \E guess \in {InitialGuess(fnCall.xT)} :
          fnCall' = [fnCall EXCEPT !.pc = "loop", !.lambda = guess.lambda, !.phi = guess.phi]
    /\ UNCHANGED <<elevCall, pctCall, ico, winkel, terrain, ocean, cdfCall, pixels, simplex, task, page, slider, handshake>>

\* one pass of `for (let iter = 0; iter < 7; iter++)`: a return, or a step
RunNewtonPass ==
    /\ fnCall.pc = "loop"
    /\ fnCall.fn = "winkelInverse.loop"
    /\ fnCall.iter < MaxNewtonIterations
    /\ \E pass \in {NewtonPass[fnCall.xT, fnCall.lambda, fnCall.phi]} :
          fnCall' =
              IF pass.exit = "converged"
              THEN [fnCall EXCEPT !.pc = "done",
                                  !.result = [lambda |-> pass.lambda, phi |-> pass.phi]]
              ELSE IF pass.exit = "singular"
              THEN [fnCall EXCEPT !.pc = "done", !.result = Null]
              ELSE [fnCall EXCEPT !.lambda = pass.lambda, !.phi = pass.phi,
                                  !.stepLam = pass.stepLam, !.stepPhi = pass.stepPhi,
                                  !.iter = fnCall.iter + 1]
    /\ UNCHANGED <<elevCall, pctCall, ico, winkel, terrain, ocean, cdfCall, pixels, simplex, task, page, slider, handshake>>

\* lines 151-155: the final check after the seventh pass
RunFinalCheck ==
    /\ fnCall.pc = "loop"
    /\ fnCall.fn = "winkelInverse.loop"
    /\ fnCall.iter = MaxNewtonIterations
    /\ fnCall' = [fnCall EXCEPT !.pc = "done",
                                !.result = NewtonFinal[fnCall.xT, fnCall.lambda, fnCall.phi]]
    /\ UNCHANGED <<elevCall, pctCall, ico, winkel, terrain, ocean, cdfCall, pixels, simplex, task, page, slider, handshake>>

NewtonNext == TakeInitialGuess \/ RunNewtonPass \/ RunFinalCheck

SpecNewton == NewtonInit /\ [][NewtonNext]_vars

\* the passes, taken one at a time, end as winkelInverse does
PassesAgreeWithWinkelInverse ==
    (fnCall.fn = "winkelInverse.loop" /\ fnCall.pc = "done") =>
        fnCall.result = winkelInverse(fnCall.xT)

\* phi is clamped into [-pi/2, pi/2]
PhiClamped(phi) == -MAX_Y <= phi /\ phi <= MAX_Y

SEED_MIN == 0
SEED_MAX == 2147483647

\* String.prototype.trim, for the blanks of the texts typed here
RECURSIVE trim(_)
trim(text) ==
    IF text = <<>> THEN text
    ELSE IF Head(text) = " " THEN trim(Tail(text))
    ELSE IF text[Len(text)] = " " THEN trim(SubSeq(text, 1, Len(text) - 1))
    ELSE text

\* /^[0-9]+$/.test(val)
IsDigits(val) ==
    /\ Len(val) > 0
    /\ \A i \in 1..Len(val) : \E d \in 1..10 : DigitChars[d] = val[i]

\* Number(val) of a text of digits
Number[val \in Seq(STRING)] ==
    IF val = <<>> THEN 0
    ELSE 10 * Number[SubSeq(val, 1, Len(val) - 1)]
            + (CHOOSE d \in 0..9 : DigitChars[d + 1] = val[Len(val)])

isValidSeed(val) ==
    IF ~IsDigits(val) THEN FALSE
    ELSE Number[val] >= SEED_MIN /\ Number[val] <= SEED_MAX

\* the values randomSeed() returns here, of 0..SEED_MAX
RandomSeeds == {3, 12}

\* what the user types into the seed input
TypedSeeds == {<<"5">>, <<" ", "1", "2">>, <<"5", "x">>}

MaxUiEvents == 3

\* runTerraformFromSeed up to its first await, without its busy guard
runTerraformFromSeed_noGuard(pg, seed) ==
    [pg EXCEPT !.terraformBusy = TRUE,
               !.disabled = TRUE,
               !.runs = Append(pg.runs, [seed |-> seed, pc |-> "nextFrame",
                                         startedTerraform |-> FALSE])]

\* runTerraformFromSeed up to its first await (lines 72-80)
runTerraformFromSeed(pg, seed) ==
    IF pg.terraformBusy THEN pg
    ELSE [pg EXCEPT !.terraformBusy = TRUE,
                    !.disabled = TRUE,
                    !.runs = Append(pg.runs, [seed |-> seed, pc |-> "nextFrame",
                                              startedTerraform |-> FALSE])]

\* the page once the module has run: the initial page load (lines 150-155)
PageInit ==
    /\ \E seed \in RandomSeeds :
          page = runTerraformFromSeed(
                     [terraformBusy |-> FALSE, disabled |-> FALSE,
                      seedInput |-> Decimal[seed], seedDisplay |-> Decimal[seed],
                      seedError |-> FALSE, runs |-> <<>>, calls |-> <<>>,
                      exported |-> <<>>, events |-> 0],
                     seed)
    /\ elevCall = Idle
    /\ pctCall = Idle
    /\ ico = Idle
    /\ winkel = Idle
    /\ terrain = Idle
    /\ ocean = Idle
    /\ cdfCall = Idle
    /\ fnCall = Idle
    /\ pixels = Idle
    /\ simplex = Idle
    /\ task = Idle
    /\ slider = Idle
    /\ handshake = Idle

\* the user edits the seed input
TypeSeed ==
    /\ page # Idle
    /\ page.events < MaxUiEvents
    /\ \E text \in TypedSeeds :
          page' = [page EXCEPT !.seedInput = text, !.events = page.events + 1]
    /\ UNCHANGED <<elevCall, pctCall, ico, winkel, terrain, ocean, cdfCall, fnCall, pixels, simplex, task, slider, handshake>>

\* onGenerateClick up to the first await of runTerraformFromSeed
onGenerateClick(pg) ==
    IF ~isValidSeed(trim(pg.seedInput)) THEN [pg EXCEPT !.seedError = TRUE]
    ELSE runTerraformFromSeed([pg EXCEPT !.seedError = FALSE,
                                         !.seedDisplay = trim(pg.seedInput)],
                              Number[trim(pg.seedInput)])

GenerateClick ==
    /\ page # Idle
    /\ page.events < MaxUiEvents
    /\ page' = onGenerateClick([page EXCEPT !.events = page.events + 1])
    /\ UNCHANGED <<elevCall, pctCall, ico, winkel, terrain, ocean, cdfCall, fnCall, pixels, simplex, task, slider, handshake>>

\* the animation frame of nextFrame(): startedTerraform = true and the call of
\* terraformWithSeed (lines 80-82)
FrameOfRun ==
    /\ page # Idle
    /\ \E i \in 1..Len(page.runs) :
          /\ page.runs[i].pc = "nextFrame"
          /\ page' = [page EXCEPT !.runs[i].startedTerraform = TRUE,
                                  !.runs[i].pc = "terraformWithSeed",
                                  !.calls = Append(page.calls, page.runs[i].seed)]
    /\ UNCHANGED <<elevCall, pctCall, ico, winkel, terrain, ocean, cdfCall, fnCall, pixels, simplex, task, slider, handshake>>

\* terraformWithSeed resolves or rejects, and the run never asks for its timeout
TerraformSettles_timeoutAfterAwait ==
    /\ page # Idle
    /\ \E i \in 1..Len(page.runs) : \E outcome \in {"resolved", "rejected"} :
          /\ page.runs[i].pc = "terraformWithSeed"
          /\ page' = [page EXCEPT !.runs[i].pc =
                          IF outcome = "resolved" THEN "timeout" ELSE "rejected"]
    /\ UNCHANGED <<elevCall, pctCall, ico, winkel, terrain, ocean, cdfCall, fnCall, pixels, simplex, task, slider, handshake>>

\* terraformWithSeed resolves or rejects: the finally block asks for the
\* zero-delay timeout (lines 83-93)
TerraformSettles ==
    /\ page # Idle
    /\ \E i \in 1..Len(page.runs) : \E outcome \in {"resolved", "rejected"} :
          /\ page.runs[i].pc = "terraformWithSeed"
          /\ page' = [page EXCEPT !.runs[i].pc = "timeout"]
    /\ UNCHANGED <<elevCall, pctCall, ico, winkel, terrain, ocean, cdfCall, fnCall, pixels, simplex, task, slider, handshake>>

\* the sequence without its i-th element
RemoveAt(seq, i) == SubSeq(seq, 1, i - 1) \o SubSeq(seq, i + 1, Len(seq))

\* the callback of window.setTimeout(..., 0) (lines 86-92)
TimeoutOfRun ==
    /\ page # Idle
    /\ \E i \in 1..Len(page.runs) : \E seed \in RandomSeeds :
          /\ page.runs[i].pc = "timeout"
          /\ page' = [page EXCEPT
                        !.seedInput = IF page.runs[i].startedTerraform
                                      THEN Decimal[seed] ELSE page.seedInput,
                        !.disabled = FALSE,
                        !.terraformBusy = FALSE,
                        !.runs = RemoveAt(page.runs, i)]
    /\ UNCHANGED <<elevCall, pctCall, ico, winkel, terrain, ocean, cdfCall, fnCall, pixels, simplex, task, slider, handshake>>

\* exportFlatMap up to its await: window.open returns the viewer or null
ExportFlatMapClick ==
    /\ page # Idle
    /\ page.events < MaxUiEvents
    /\ \E blocked \in BOOLEAN :
          page' =
              IF ~isValidSeed(trim(page.seedDisplay)) \/ blocked
              THEN [page EXCEPT !.seedError = TRUE, !.events = page.events + 1]
              ELSE [page EXCEPT !.seedError = FALSE, !.events = page.events + 1,
                                !.exported = <<Number[trim(page.seedDisplay)]>>]
    /\ UNCHANGED <<elevCall, pctCall, ico, winkel, terrain, ocean, cdfCall, fnCall, pixels, simplex, task, slider, handshake>>

PageNext ==
    \/ TypeSeed
    \/ GenerateClick
    \/ FrameOfRun
    \/ TerraformSettles
    \/ TimeoutOfRun
    \/ ExportFlatMapClick

SpecPage == PageInit /\ [][PageNext]_vars

\* animation frames and timeouts are delivered, and terraformWithSeed settles
SpecPageFair ==
    SpecPage /\ WF_vars(FrameOfRun) /\ WF_vars(TerraformSettles) /\ WF_vars(TimeoutOfRun)

\* the calls of terraformWithSeed that have not settled
TerraformInFlight == {i \in 1..Len(page.runs) : page.runs[i].pc = "terraformWithSeed"}

(***************************************************************************)
(* C22: at most one run of runTerraformFromSeed is past the busy guard and *)
(* at most one call of terraformWithSeed is in flight; terraformBusy is    *)
(* true (and the button disabled) from the start of a run until its        *)
(* timeout callback; and a step taken while terraformBusy is true admits   *)
(* no run.                                                                 *)
(***************************************************************************)
C22_OneRunInFlight ==
    /\ [](page # Idle =>
            /\ Len(page.runs) <= 1
            /\ Cardinality(TerraformInFlight) <= 1
            /\ page.terraformBusy <=> page.runs # <<>>
            /\ page.disabled <=> page.terraformBusy)
    /\ [][(page # Idle /\ page.terraformBusy) =>
              /\ Len(page'.runs) <= Len(page.runs)
              /\ Len(page'.calls) <= 1 + Len(page.calls)]_vars

\* a click with another seed arrived while the first run's terraformWithSeed
\* was in flight, and that run is still the only one
C22_Witness ==
    /\ page # Idle
    /\ page.seedDisplay = <<"5">>
    /\ Len(page.runs) = 1
    /\ page.runs[1].pc = "terraformWithSeed"
    /\ page.runs[1].seed # 5
    /\ page.calls = <<page.runs[1].seed>>

(***************************************************************************)
(* C28: a run that has passed the busy guard (terraformBusy is true)       *)
(* eventually releases it, whether terraformWithSeed resolves or rejects:  *)
(* terraformBusy becomes false and the button is enabled again, both in    *)
(* the timeout callback of the run; and that callback replaces the seed    *)
(* input only if the run had reached its call of terraformWithSeed.        *)
(***************************************************************************)
C28_BusyIsReleased ==
    /\ (page # Idle /\ page.terraformBusy) ~> (~page.terraformBusy /\ ~page.disabled)
    /\ [][(page # Idle /\ page.terraformBusy /\ ~page'.terraformBusy) =>
              /\ page.runs[1].pc = "timeout"
              /\ ~page'.disabled
              /\ page'.seedInput # page.seedInput =>
                    (page.runs[1].startedTerraform /\ page.calls # <<>>)]_vars

\* the first run has released the guard and left another seed in the input
C28_Witness ==
    /\ page # Idle
    /\ ~page.terraformBusy
    /\ ~page.disabled
    /\ page.events = 0
    /\ Len(page.calls) = 1
    /\ page.seedInput # Decimal[page.calls[1]]

(***************************************************************************)
(* C29: whenever no run is in flight, seedDisplay, which exportFlatMap     *)
(* reads its seed from, holds the seed of the most recent call of          *)
(* terraformWithSeed that was started.                                     *)
(***************************************************************************)
C29_DisplayNamesGlobe ==
    (page # Idle /\ ~page.terraformBusy) =>
        /\ page.calls # <<>>
        /\ page.seedDisplay = Decimal[page.calls[Len(page.calls)]]

(***************************************************************************)
(* The ocean-surface slider of the globe page.  Time is counted in tenths  *)
(* of a second.  A timer is [id, due]: it may fire at any time from `due`  *)
(* on (a late timer is a timer), and clearTimeout removes it.  The page    *)
(* keeps the number of the rebuilds of the mesh and what the last one used.*)
(***************************************************************************)
DebounceDelay == 5
MaxTime == 9
MaxInputs == 3
SliderValues == {30, 70}

\* updateVolumeRatioDisplayAndMesh: reads the slider, shows the value, rebuilds
updateVolumeRatioDisplayAndMesh(s) ==
    [s EXCEPT !.oceanSAFraction = s.value,
              !.display = s.value,
              !.rebuilds = s.rebuilds + 1,
              !.rebuiltAt = s.now,
              !.rebuildsSinceInput = s.rebuildsSinceInput + 1]

\* the page once the module has run: the first rebuild (line 624), no timer
SliderInit ==
    /\ \E value \in SliderValues :
          slider = updateVolumeRatioDisplayAndMesh(
                       [now |-> 0, value |-> value, oceanSAFraction |-> 0, display |-> 0,
                        debounceTimeout |-> 0, timers |-> {}, inputs |-> 0, lastInputAt |-> 0,
                        rebuilds |-> 0, rebuiltAt |-> 0, rebuildsSinceInput |-> 0])
    /\ elevCall = Idle
    /\ pctCall = Idle
    /\ ico = Idle
    /\ winkel = Idle
    /\ terrain = Idle
    /\ ocean = Idle
    /\ cdfCall = Idle
    /\ fnCall = Idle
    /\ pixels = Idle
    /\ simplex = Idle
    /\ task = Idle
    /\ page = Idle
    /\ handshake = Idle

\* the 'input' listener without its clearTimeout
onSliderInput_noClear(s) ==
    [s EXCEPT !.timers = s.timers \cup {[id |-> s.inputs + 1, due |-> s.now + DebounceDelay]},
              !.debounceTimeout = s.inputs + 1]

\* the 'input' listener (lines 628-636): clearTimeout, then a timer of 500 ms;
\* 0 stands for undefined, the id of a timer is the number of its input event
onSliderInput(s) ==
    [s EXCEPT !.timers = {t \in s.timers : s.debounceTimeout = 0 \/ t.id # s.debounceTimeout}
                             \cup {[id |-> s.inputs + 1, due |-> s.now + DebounceDelay]},
              !.debounceTimeout = s.inputs + 1]

\* the user moves the slider: its value changes and 'input' is dispatched
\* (the events whose timer comes due before the clock of the model stops)
SliderInput ==
    /\ slider # Idle
    /\ slider.inputs < MaxInputs
    /\ slider.now + DebounceDelay <= MaxTime
    /\ \E value \in SliderValues :
          slider' = [onSliderInput(slider) EXCEPT !.value = value,
                                                  !.inputs = slider.inputs + 1,
                                                  !.lastInputAt = slider.now,
                                                  !.rebuildsSinceInput = 0]
    /\ UNCHANGED <<elevCall, pctCall, ico, winkel, terrain, ocean, cdfCall, fnCall, pixels, simplex, task, page, handshake>>

\* a tenth of a second passes
SliderTick ==
    /\ slider # Idle
    /\ slider.now < MaxTime
    /\ slider' = [slider EXCEPT !.now = slider.now + 1]
    /\ UNCHANGED <<elevCall, pctCall, ico, winkel, terrain, ocean, cdfCall, fnCall, pixels, simplex, task, page, handshake>>

\* the callback of the debounce timer (lines 632-635)
DebounceTimerFires ==
    /\ slider # Idle
    /\ \E t \in slider.timers :
          /\ t.due <= slider.now
          /\ slider' = [updateVolumeRatioDisplayAndMesh(slider) EXCEPT
                          !.timers = slider.timers \ {t},
                          !.debounceTimeout = 0]
    /\ UNCHANGED <<elevCall, pctCall, ico, winkel, terrain, ocean, cdfCall, fnCall, pixels, simplex, task, page, handshake>>

SliderNext == SliderInput \/ SliderTick \/ DebounceTimerFires

SpecSlider == SliderInit /\ [][SliderNext]_vars

\* time passes and a timer that is due fires
SpecSliderFair == SpecSlider /\ WF_vars(SliderTick) /\ WF_vars(DebounceTimerFires)

DefaultMinWidth == 1024
MinCanvasHeight == 600

\* Math.max of three numbers
Max3(a, b, c) == Max(Max(a, b), c)

\* pickExportSize({sourceCanvasWidth, sourceCanvasHeight, minWidth = 1024})
pickExportSize(sourceCanvasWidth, sourceCanvasHeight, minWidthOption) ==
    LET minWidth == IF minWidthOption = <<>> THEN DefaultMinWidth ELSE minWidthOption[1]
        width == Max3(sourceCanvasWidth, sourceCanvasHeight * 2, minWidth)
        height == Max(sourceCanvasHeight, width \div 2)
    IN  [width |-> width, height |-> height]

\* pickCanvasSize({sourceCanvasHeight})
pickCanvasSize(sourceCanvasHeight) ==
    LET height == Max(sourceCanvasHeight, MinCanvasHeight)
    IN  [width |-> height * 2, height |-> height]

SourceWidths == {1, 2, 3, 640, 1025, 1920}
SourceHeights == {1, 2, 3, 480, 1080}
MinWidthOptions == {<<>>, <<1>>, <<2>>, <<1025>>}

ExportSizeInit ==
    /\ fnCall \in [pc : {"call"}, fn : {"pickExportSize", "pickCanvasSize"},
                   sourceCanvasWidth : SourceWidths, sourceCanvasHeight : SourceHeights,
                   minWidth : MinWidthOptions, size : {Null}]
    /\ fnCall.fn = "pickCanvasSize" => fnCall.minWidth = <<>>
    /\ elevCall = Idle
    /\ pctCall = Idle
    /\ ico = Idle
    /\ winkel = Idle
    /\ terrain = Idle
    /\ ocean = Idle
    /\ cdfCall = Idle
    /\ pixels = Idle
    /\ simplex = Idle
    /\ task = Idle
    /\ page = Idle
    /\ slider = Idle
    /\ handshake = Idle

CallPickExportSize ==
    /\ fnCall.pc = "call"
    /\ fnCall.fn = "pickExportSize"
    /\ fnCall' = [fnCall EXCEPT
                    !.pc = "done",
                    !.size = pickExportSize(fnCall.sourceCanvasWidth,
                                            fnCall.sourceCanvasHeight, fnCall.minWidth)]
    /\ UNCHANGED <<elevCall, pctCall, ico, winkel, terrain, ocean, cdfCall, pixels, simplex, task, page, slider, handshake>>

CallPickCanvasSize ==
    /\ fnCall.pc = "call"
    /\ fnCall.fn = "pickCanvasSize"
    /\ fnCall' = [fnCall EXCEPT !.pc = "done",
                                !.size = pickCanvasSize(fnCall.sourceCanvasHeight)]
    /\ UNCHANGED <<elevCall, pctCall, ico, winkel, terrain, ocean, cdfCall, pixels, simplex, task, page, slider, handshake>>

ExportSizeNext == CallPickExportSize \/ CallPickCanvasSize

SpecExportSize == ExportSizeInit /\ [][ExportSizeNext]_vars

\* what holds of pickExportSize: it covers the source canvas, and its height
\* is half its width rounded down
ExportSizeCoversSource ==
    (fnCall.pc = "done" /\ fnCall.fn = "pickExportSize") =>
        /\ fnCall.size.width >= fnCall.sourceCanvasWidth
        /\ fnCall.size.height >= fnCall.sourceCanvasHeight
        /\ fnCall.size.height = fnCall.size.width \div 2

(***************************************************************************)
(* C24: for positive integer arguments pickExportSize returns a width of   *)
(* at least sourceCanvasWidth, a height of at least sourceCanvasHeight,    *)
(* and width = 2 * height.                                                 *)
(***************************************************************************)
C24_ExportSizeTwoToOne ==
    (fnCall.pc = "done" /\ fnCall.fn = "pickExportSize") =>
        /\ fnCall.size.width >= fnCall.sourceCanvasWidth
        /\ fnCall.size.height >= fnCall.sourceCanvasHeight
        /\ fnCall.size.width = 2 * fnCall.size.height

(***************************************************************************)
(* The handshake of an opener (openWinkelTripelMapWindow of winkel.ts,     *)
(* openFlatMapWindow of the flat map module) with the viewer window it     *)
(* opened (winkelViewer.ts, flatmapViewer.ts).  postMessage appends to the *)
(* queue of the receiving window, which handles its messages in order; a   *)
(* message that arrives before the viewer page has loaded finds no         *)
(* listener.  Any other window may post to either side (the foreign        *)
(* messages).  The timers of the opener fire at any time while they are    *)
(* set.  A field a message does not carry is 0 or "".  The viewer keeps    *)
(* the last message its listener was called with.                          *)
(***************************************************************************)
MaxPings == 2
MaxForeign == 2

ViewerKinds == {"winkel", "flatmap"}

InitType(kind) == IF kind = "winkel" THEN "TFW_WINKEL_INIT" ELSE "TFW_FLATMAP_INIT"

Message(type, viewer, nonce, source) ==
    [type |-> type, viewer |-> viewer, nonce |-> nonce, source |-> source,
     title |-> "", seed |-> 0, oceanSAFraction |-> 0, subdivisions |-> 0,
     qualityHeightPx |-> 0, pngBlob |-> 0]

PingMsg(kind) == Message("TFW_PING", kind, "", "opener")

ReadyMsg(kind, nonce) == Message("TFW_READY", kind, nonce, "target")

\* the init message of the opener: the options of the call, the nonce of READY
OpenerInitMsg(kind, readyNonce) ==
    IF kind = "winkel"
    THEN [Message("TFW_WINKEL_INIT", "winkel", readyNonce, "opener") EXCEPT
             !.title = "Winkel Tripel Viewer", !.seed = 7, !.oceanSAFraction = 71,
             !.subdivisions = 8, !.qualityHeightPx = 600]
    ELSE [Message("TFW_FLATMAP_INIT", "flatmap", readyNonce, "opener") EXCEPT
             !.title = "Flat Map Viewer", !.pngBlob = 7]

\* an init message of another window: what it carries is not what the opener sends
ForeignInit(type, viewer, nonce) ==
    [Message(type, viewer, nonce, "other") EXCEPT
        !.title = "foreign", !.seed = 9, !.oceanSAFraction = 9, !.subdivisions = 9,
        !.qualityHeightPx = 9, !.pngBlob = 9]

OtherKind(kind) == IF kind = "winkel" THEN "flatmap" ELSE "winkel"

ForeignToViewerMessages(kind, nonce) ==
    {ForeignInit(InitType(kind), kind, "guess"),
     ForeignInit(InitType(kind), OtherKind(kind), nonce),
     ForeignInit(InitType(OtherKind(kind)), kind, nonce),
     ForeignInit(InitType(kind), kind, nonce),
     Message("TFW_PING", OtherKind(kind), "", "other")}

ForeignToOpenerMessages(kind) ==
    {Message("TFW_READY", kind, "guess", "other"),
     Message("TFW_READY", OtherKind(kind), "guess", "target"),
     Message("TFW_PING", kind, "guess", "target")}

\* cleanup() of waitForViewerReady
cleanup(o) == [o EXCEPT !.timeout = FALSE, !.pingInterval = FALSE, !.listening = FALSE]

\* the opener after window.open and the executor of waitForViewerReady, and
\* the viewer window: loading, or a page that is loaded already
HandshakeInit ==
    /\ \E kind \in ViewerKinds : \E loaded \in BOOLEAN :
          handshake =
              [kind |-> kind,
               opener |-> [pc |-> "waiting", timeout |-> TRUE, pingInterval |-> TRUE,
                           listening |-> TRUE, readyNonce |-> "", pings |-> 1,
                           inits |-> 0, settled |-> 0],
               viewer |-> [loaded |-> loaded, nonce |-> "own", title |-> "", seed |-> 0,
                           oceanSAFraction |-> 71, subdivisions |-> 8,
                           qualityHeightPx |-> 600, builds |-> 0, loading |-> <<>>,
                           bitmap |-> 0, last |-> Null],
               toViewer |-> <<PingMsg(kind)>>,
               toOpener |-> <<>>,
               foreign |-> 0]
    /\ elevCall = Idle
    /\ pctCall = Idle
    /\ ico = Idle
    /\ winkel = Idle
    /\ terrain = Idle
    /\ ocean = Idle
    /\ cdfCall = Idle
    /\ fnCall = Idle
    /\ pixels = Idle
    /\ simplex = Idle
    /\ task = Idle
    /\ page = Idle
    /\ slider = Idle

\* main() of the viewer page reaches its end: the listener is set, READY is posted
ViewerLoads ==
    /\ handshake # Idle
    /\ ~handshake.viewer.loaded
    /\ handshake' = [handshake EXCEPT
                       !.viewer.loaded = TRUE,
                       !.toOpener = Append(@, ReadyMsg(handshake.kind, handshake.viewer.nonce))]
    /\ UNCHANGED <<elevCall, pctCall, ico, winkel, terrain, ocean, cdfCall, fnCall, pixels, simplex, task, page, slider>>

\* the callback of setInterval(..., 250)
PingIntervalFires ==
    /\ handshake # Idle
    /\ handshake.opener.pingInterval
    /\ handshake.opener.pings < 1 + MaxPings
    /\ handshake' = [handshake EXCEPT !.opener.pings = @ + 1,
                                      !.toViewer = Append(@, PingMsg(handshake.kind))]
    /\ UNCHANGED <<elevCall, pctCall, ico, winkel, terrain, ocean, cdfCall, fnCall, pixels, simplex, task, page, slider>>

\* the callback of setTimeout(..., timeoutMs): cleanup and reject; the open
\* call ends with the error
ViewerTimeoutFires ==
    /\ handshake # Idle
    /\ handshake.opener.timeout
    /\ handshake' = [handshake EXCEPT
                       !.opener = [cleanup(@) EXCEPT !.pc = "timedOut", !.settled = @ + 1]]
    /\ UNCHANGED <<elevCall, pctCall, ico, winkel, terrain, ocean, cdfCall, fnCall, pixels, simplex, task, page, slider>>

\* onMsg of waitForViewerReady that resolves on any READY of the viewer tag
onMsg_anySource(h, data) ==
    IF data.type # "TFW_READY" \/ data.viewer # h.kind THEN h
    ELSE IF h.kind = "winkel"
    THEN [h EXCEPT !.opener = [cleanup(@) EXCEPT !.pc = "posted", !.settled = @ + 1,
                                                 !.readyNonce = data.nonce,
                                                 !.inits = @ + 1],
                   !.toViewer = Append(@, OpenerInitMsg(h.kind, data.nonce))]
    ELSE [h EXCEPT !.opener = [cleanup(@) EXCEPT !.pc = "rendering", !.settled = @ + 1,
                                                 !.readyNonce = data.nonce]]

\* onMsg of waitForViewerReady, and what the open call does when the promise
\* resolves: openWinkelTripelMapWindow posts the init message, openFlatMapWindow
\* goes on to render the map
onMsg(h, data) ==
    IF data.source # "target" THEN h
    ELSE IF data.type # "TFW_READY" \/ data.viewer # h.kind THEN h
    ELSE IF h.kind = "winkel"
    THEN [h EXCEPT !.opener = [cleanup(@) EXCEPT !.pc = "posted", !.settled = @ + 1,
                                                 !.readyNonce = data.nonce,
                                                 !.inits = @ + 1],
                   !.toViewer = Append(@, OpenerInitMsg(h.kind, data.nonce))]
    ELSE [h EXCEPT !.opener = [cleanup(@) EXCEPT !.pc = "rendering", !.settled = @ + 1,
                                                 !.readyNonce = data.nonce]]

\* the opener window handles its next message
OpenerReceives ==
    /\ handshake # Idle
    /\ handshake.toOpener # <<>>
    /\ \E h \in {[handshake EXCEPT !.toOpener = Tail(@)]} :
          handshake' = IF h.opener.listening THEN onMsg(h, Head(handshake.toOpener)) ELSE h
    /\ UNCHANGED <<elevCall, pctCall, ico, winkel, terrain, ocean, cdfCall, fnCall, pixels, simplex, task, page, slider>>

\* openFlatMapWindow after renderFlatMapCanvas and canvasToPngBlob: the init message
FlatMapRendered ==
    /\ handshake # Idle
    /\ handshake.opener.pc = "rendering"
    /\ handshake' = [handshake EXCEPT
                       !.opener.pc = "posted",
                       !.opener.inits = @ + 1,
                       !.toViewer = Append(@, OpenerInitMsg(handshake.kind,
                                                            handshake.opener.readyNonce))]
    /\ UNCHANGED <<elevCall, pctCall, ico, winkel, terrain, ocean, cdfCall, fnCall, pixels, simplex, task, page, slider>>

\* the message listener of the viewer without the test of the nonce
viewerOnMessage_anyNonce(h, data) ==
    IF data.type = "TFW_PING" /\ data.viewer = h.kind
    THEN [h EXCEPT !.toOpener = Append(@, ReadyMsg(h.kind, h.viewer.nonce))]
    ELSE IF data.type # InitType(h.kind) \/ data.viewer # h.kind THEN h
    ELSE IF h.kind = "winkel"
    THEN [h EXCEPT !.viewer.title = data.title,
                   !.viewer.seed = data.seed,
                   !.viewer.oceanSAFraction = data.oceanSAFraction,
                   !.viewer.subdivisions = data.subdivisions,
                   !.viewer.qualityHeightPx = data.qualityHeightPx,
                   !.viewer.builds = @ + 1]
    ELSE [h EXCEPT !.viewer.title = data.title,
                   !.viewer.loading = Append(@, data.pngBlob)]

\* the message listener of the viewer page: of winkelViewer.ts, which goes on
\* into initRenderer, and of flatmapViewer.ts, up to its await of the bitmap
viewerOnMessage(h, data) ==
    IF data.type = "TFW_PING" /\ data.viewer = h.kind
    THEN [h EXCEPT !.toOpener = Append(@, ReadyMsg(h.kind, h.viewer.nonce))]
    ELSE IF data.type # InitType(h.kind) \/ data.viewer # h.kind THEN h
    ELSE IF data.nonce # h.viewer.nonce THEN h
    ELSE IF h.kind = "winkel"
    THEN [h EXCEPT !.viewer.title = data.title,
                   !.viewer.seed = data.seed,
                   !.viewer.oceanSAFraction = data.oceanSAFraction,
                   !.viewer.subdivisions = data.subdivisions,
                   !.viewer.qualityHeightPx = data.qualityHeightPx,
                   !.viewer.builds = @ + 1]
    ELSE [h EXCEPT !.viewer.title = data.title,
                   !.viewer.loading = Append(@, data.pngBlob)]

\* the viewer window handles its next message; before the page has loaded
\* there is no listener
ViewerReceives ==
    /\ handshake # Idle
    /\ handshake.toViewer # <<>>
    /\ \E h \in {[handshake EXCEPT !.toViewer = Tail(@)]} :
          handshake' =
              IF h.viewer.loaded
              THEN viewerOnMessage([h EXCEPT !.viewer.last = Head(handshake.toViewer)],
                                   Head(handshake.toViewer))
              ELSE h
    /\ UNCHANGED <<elevCall, pctCall, ico, winkel, terrain, ocean, cdfCall, fnCall, pixels, simplex, task, page, slider>>

\* loadBitmapFromBlob resolves in the flat map viewer: bitmap = ...
BitmapLoaded ==
    /\ handshake # Idle
    /\ handshake.viewer.loading # <<>>
    /\ handshake' = [handshake EXCEPT !.viewer.bitmap = Head(handshake.viewer.loading),
                                      !.viewer.loading = Tail(@)]
    /\ UNCHANGED <<elevCall, pctCall, ico, winkel, terrain, ocean, cdfCall, fnCall, pixels, simplex, task, page, slider>>

\* another window posts a message to the viewer
ForeignPostsToViewer ==
    /\ handshake # Idle
    /\ handshake.foreign < MaxForeign
    /\ \E data \in ForeignToViewerMessages(handshake.kind, handshake.viewer.nonce) :
          handshake' = [handshake EXCEPT !.foreign = @ + 1, !.toViewer = Append(@, data)]
    /\ UNCHANGED <<elevCall, pctCall, ico, winkel, terrain, ocean, cdfCall, fnCall, pixels, simplex, task, page, slider>>

\* a message of another window, or another message of the viewer, reaches the opener
ForeignPostsToOpener ==
    /\ handshake # Idle
    /\ handshake.foreign < MaxForeign
    /\ \E data \in ForeignToOpenerMessages(handshake.kind) :
          handshake' = [handshake EXCEPT !.foreign = @ + 1, !.toOpener = Append(@, data)]
    /\ UNCHANGED <<elevCall, pctCall, ico, winkel, terrain, ocean, cdfCall, fnCall, pixels, simplex, task, page, slider>>

HandshakeNext ==
    \/ ViewerLoads
    \/ PingIntervalFires
    \/ ViewerTimeoutFires
    \/ OpenerReceives
    \/ FlatMapRendered
    \/ ViewerReceives
    \/ BitmapLoaded
    \/ ForeignPostsToViewer
    \/ ForeignPostsToOpener

SpecHandshake == HandshakeInit /\ [][HandshakeNext]_vars

\* what an init message sets in the viewer, and the builds and loads it starts
ViewerState(h) ==
    <<h.viewer.title, h.viewer.seed, h.viewer.oceanSAFraction, h.viewer.subdivisions,
      h.viewer.qualityHeightPx, h.viewer.builds, h.viewer.loading, h.viewer.bitmap>>

\* an init message of the viewer's type and tag that carries the viewer's nonce
MatchesViewer(h, data) ==
    /\ data.type = InitType(h.kind)
    /\ data.viewer = h.kind
    /\ data.nonce = h.viewer.nonce

\* the step in which the loaded viewer handles the message at the head of its queue
ViewerHandles ==
    /\ handshake # Idle
    /\ handshake.viewer.loaded
    /\ handshake.toViewer # <<>>
    /\ handshake'.toViewer = Tail(handshake.toViewer)

(***************************************************************************)
(* C25: the viewer applies an init message only when its type and viewer   *)
(* tag are the viewer's and its nonce equals the viewer's own nonce: any   *)
(* other message leaves title, seed, oceanSAFraction, subdivisions,        *)
(* qualityHeightPx and bitmap unchanged and starts no build or load; a     *)
(* TFW_PING of the viewer's tag is answered with one TFW_READY that        *)
(* carries the viewer's nonce, and changes no state; no other message is   *)
(* answered.                                                               *)
(***************************************************************************)
C25_InitNeedsOwnNonce ==
    [][ViewerHandles =>
          LET data == Head(handshake.toViewer)
              ping == data.type = "TFW_PING" /\ data.viewer = handshake.kind
          IN  /\ ~MatchesViewer(handshake, data) =>
                    ViewerState(handshake') = ViewerState(handshake)
              /\ MatchesViewer(handshake, data) =>
                    /\ handshake'.viewer.title = data.title
                    /\ ViewerState(handshake') # ViewerState(handshake)
              /\ ping => handshake'.toOpener =
                             Append(handshake.toOpener,
                                    ReadyMsg(handshake.kind, handshake.viewer.nonce))
              /\ ~ping => handshake'.toOpener = handshake.toOpener]_vars

\* the viewer has handled an init message of its type and tag with another
\* nonce, and is as main() left it
C25_Witness ==
    /\ handshake # Idle
    /\ handshake.viewer.loaded
    /\ handshake.viewer.last = ForeignInit(InitType(handshake.kind), handshake.kind, "guess")
    /\ handshake.viewer.title = ""
    /\ handshake.viewer.builds = 0
    /\ handshake.viewer.bitmap = 0

\* the step in which the opener handles the message at the head of its queue
OpenerHandles ==
    /\ handshake # Idle
    /\ handshake.toOpener # <<>>
    /\ handshake'.toOpener = Tail(handshake.toOpener)

(***************************************************************************)
(* C26: waitForViewerReady settles once: it resolves with the nonce of the *)
(* first TFW_READY of the viewer tag received from the target window, or   *)
(* rejects when the timeout fires first; once it has settled its timers    *)
(* and its listener are gone, no ping is sent and no message changes the   *)
(* opener; the init message is posted at most once, only after READY was   *)
(* received and with the nonce of that READY, and never after a timeout.   *)
(***************************************************************************)
C26_HandshakeSettlesOnce ==
    /\ [](handshake # Idle =>
            /\ handshake.opener.settled <= 1
            /\ handshake.opener.inits <= 1
            /\ handshake.opener.settled = 0 <=> handshake.opener.pc = "waiting"
            /\ handshake.opener.settled = 1 =>
                  /\ ~handshake.opener.timeout
                  /\ ~handshake.opener.pingInterval
                  /\ ~handshake.opener.listening
            /\ handshake.opener.pc = "timedOut" =>
                  (handshake.opener.inits = 0 /\ handshake.opener.readyNonce = "")
            /\ handshake.opener.inits = 1 => handshake.opener.pc = "posted"
            /\ \A i \in 1..Len(handshake.toViewer) :
                  handshake.toViewer[i].source = "opener" =>
                      \/ handshake.toViewer[i] = PingMsg(handshake.kind)
                      \/ /\ handshake.opener.pc = "posted"
                         /\ handshake.toViewer[i] =
                               OpenerInitMsg(handshake.kind, handshake.opener.readyNonce))
    /\ [][(handshake # Idle /\ handshake.opener.settled = 1) =>
              /\ handshake'.opener.pings = handshake.opener.pings
              /\ handshake'.opener.readyNonce = handshake.opener.readyNonce
              /\ handshake'.opener.settled = 1
              /\ handshake'.opener.pc # handshake.opener.pc =>
                    (handshake.opener.pc = "rendering" /\ handshake'.opener.pc = "posted")]_vars
    /\ [][(OpenerHandles /\ handshake.opener.pc = "waiting") =>
              LET data == Head(handshake.toOpener)
              IN  IF data.source = "target" /\ data.type = "TFW_READY"
                         /\ data.viewer = handshake.kind
                  THEN /\ handshake'.opener.settled = 1
                       /\ handshake'.opener.readyNonce = data.nonce
                  ELSE handshake'.opener = handshake.opener]_vars

\* the handshake has resolved and the init message was posted and handled;
\* the viewer's answer to a later ping waits, unheard, in the opener's queue
C26_Witness ==
    /\ handshake # Idle
    /\ handshake.opener.pc = "posted"
    /\ handshake.opener.readyNonce = "own"
    /\ handshake.opener.pings > 1
    /\ handshake.viewer.last = OpenerInitMsg(handshake.kind, "own")
    /\ handshake.toOpener # <<>>
    /\ Head(handshake.toOpener) = ReadyMsg(handshake.kind, "own")

(***************************************************************************)
(* C27: in the Winkel viewer render() passes renderWinkel a mapping that   *)
(* a buildMapping has returned, with a buffer of its width and height:     *)
(* the size mismatch error is never raised, and a run of initRenderer that *)
(* still waits in buildMapping has not stored the mapping it is building.  *)
(***************************************************************************)
C27_RenderReadsBuiltMapping ==
    winkel # Idle =>
        /\ winkel.drawn # SizeMismatch
        /\ winkel.drawn # Null =>
              /\ winkel.drawn.map.width = winkel.drawn.buf.width
              /\ winkel.drawn.map.height = winkel.drawn.buf.height
              /\ winkel.drawn.map.run = winkel.drawn.buf.run
        /\ \A r \in winkel.runs :
              /\ r.y < r.height
              /\ r.label = "preview" =>
                    (winkel.mappingPreview = Null \/ winkel.mappingPreview.run # r.id)
              /\ r.label = "full" =>
                    (winkel.mappingFull = Null \/ winkel.mappingFull.run # r.id)

\* a render during a drag, while the build of a second init message, of
\* another size, waits at a yield
C27_Witness ==
    /\ winkel # Idle
    /\ winkel.started = 2
    /\ winkel.runs # {}
    /\ winkel.dragging
    /\ winkel.drawn # Null
    /\ winkel.drawn # SizeMismatch
    /\ winkel.mappingFull # Null
    /\ winkel.drawn.map = winkel.mappingPreview

\* the frame callbacks of requestRender that are waiting to be called
RenderCallbacksPending ==
    {i \in 1..Len(winkel.rafQueue) : winkel.rafQueue[i].kind = "render"}
        \cup {-i : i \in {j \in 1..Len(winkel.frame) : winkel.frame[j].kind = "render"}}

\* the step of the frame callback of requestRender
RenderCallbackStep ==
    /\ winkel # Idle
    /\ winkel.frame # <<>>
    /\ Head(winkel.frame).kind = "render"
    /\ winkel'.frame = Tail(winkel.frame)

\* the canvas shows a render of the full mapping and no render is requested
FullRenderDone ==
    /\ ~winkel.renderPending
    /\ winkel.drawn # Null
    /\ winkel.drawn.map = winkel.mappingFull
    /\ winkel.drawn.buf = winkel.fullBuf

(***************************************************************************)
(* C30: at most one frame callback of requestRender is pending, and one is *)
(* pending exactly while renderPending is true; usePreview is the argument *)
(* of the most recent requestRender call and the render a callback runs    *)
(* draws the buffer of that choice; and with the full mapping built, a     *)
(* requested render with the drag over leads to a render of the full       *)
(* mapping, unless a drag starts first.                                    *)
(***************************************************************************)
C30_LastRenderRequestWins ==
    /\ [](winkel # Idle =>
            /\ Cardinality(RenderCallbacksPending) <= 1
            /\ winkel.renderPending <=> RenderCallbacksPending # {}
            /\ winkel.usePreview = winkel.lastRequest)
    /\ [][RenderCallbackStep =>
              /\ ~winkel'.renderPending
              /\ winkel'.renderToken = winkel.renderToken + 1
              /\ (winkel.previewBuf # Null /\ winkel.lastRequest) =>
                    winkel'.drawn.buf = winkel.previewBuf
              /\ (winkel.fullBuf # Null /\ ~winkel.lastRequest) =>
                    winkel'.drawn.buf = winkel.fullBuf]_vars
    /\ (winkel # Idle /\ winkel.mappingFull # Null /\ ~winkel.dragging /\ winkel.renderPending)
           ~> (winkel.dragging \/ FullRenderDone)

\* a drag has ended with the full mapping of a 150-row init on the canvas: the
\* one callback of endDrag's requestRender(false) is pending
C30_Witness ==
    /\ winkel # Idle
    /\ winkel.events = MaxEvents
    /\ winkel.lastClientX = 100
    /\ ~winkel.dragging
    /\ winkel.runs = {}
    /\ winkel.renderPending
    /\ ~winkel.lastRequest
    /\ winkel.renderToken = 2
    /\ winkel.drawn # Null
    /\ winkel.drawn.map = winkel.mappingFull
    /\ winkel.drawn.map.height = 150
    /\ winkel.rafQueue = <<[kind |-> "render", run |-> 0]>>
====
